---- MODULE Spec2Model ----
(***************************************************************************)
(* A model of mc-server-runner: the process supervisor and its signal      *)
(* driven termination controller (src/main.go), the writers to the child's *)
(* stdin and the fan-out of the child's stdout/stderr.                     *)
(*                                                                         *)
(* Goroutines are modelled as interleaved atomic actions: one action per   *)
(* case of the main select loop, one per timer callback, one for the       *)
(* cmd.Wait goroutine, and one per step of each console writer.            *)
(***************************************************************************)
EXTENDS Integers, Sequences, FiniteSets, TLC

(***************************************************************************)
(* Bounds of the model.                                                    *)
(***************************************************************************)
\* how many signals the environment sends to the supervisor in one run
MaxSignals == 2

\* signals sent in a run that also has console input
MaxStdinSignals == 1
\* input chunks (lines, or io.Copy buffers) the console writers receive in one run
MaxInputs == 2
\* SSH sessions and WebSocket clients that write to the console
NumSsh == 1
NumWs == 1
\* output chunks the child writes in one run
MaxOutputs == 2

\* chunks written to the FIFO in one run, and how often a writer opens it
MaxPipeChunks == 2
MaxPipeCycles == 2
\* errors of os.Open and io.Copy on the FIFO in one run
MaxPipeErrs == 2

\* WebSocket connections made in one run, and text frames their clients send
MaxClients == 2
MaxFrames == 2
\* output chunks the child writes in a run with WebSocket clients
MaxWsOutputs == 3
\* the largest capacity of the ring of recent lines (-log-buffer-size)
MaxCap == 2
\* SSH sessions opened in one run, and output chunks in a run with SSH sessions
MaxSessions == 2
MaxSshOutputs == 2

\* values of -stop-server-announce-delay and -stop-duration, in milliseconds
AnnounceDelays == {0, 1500}
StopDurations == {0, 5000}
\* values of -stop-command ("": the flag given empty; terminate then uses "stop")
StopCommands == {"stop"}
\* exit statuses of a child that exits by itself
ExitCodes == {0, 3}

NoTimer == 0

\* the two output streams of the child
Streams == {"stdout", "stderr"}

\* goroutines that write commands: main, and the callback of announce timer i
MainLoop == <<"main", 0>>
TimerCallback(i) == <<"timer", i>>
\* goroutines that write console input: the local stdin relay, the named-pipe
\* loop, the handler of SSH session k, the handler of WebSocket client k
LocalStdin == <<"local", 0>>
NamedPipe == <<"pipe", 0>>
SshSession(k) == <<"ssh", k>>
WsClient(k) == <<"ws", k>>
\* nobody holds the mutex
NoHolder == <<"none", 0>>
\* the goroutines that write through Console.WriteToStdIn
LockedWriterIds == {LocalStdin} \union {SshSession(k) : k \in 1..NumSsh}
\* the consumers of one output stream
ConsumerNames == {"terminal", "ws", "sshPipe", "sshSession"}

VARIABLES
    cfg,          \* the parsed Args and the environment (constant during a run)
    mainPc,       \* main: "boot" (about to write the bootstrap file) | "pipe" (about to
                  \*   call handleNamedPipe) | "loop" | "exiting" (between cancel()
                  \*   and os.Exit)
    sigLeft,      \* signals the environment may still send
    termChan,     \* termChan (buffer of 1): a SIGTERM is pending
    usr1Chan,     \* usr1Chan (buffer of 1): a SIGUSR1 is pending
    timer,        \* main's `timer`: NoTimer (nil) or an index into timers
    timers,       \* every announce-delay timer made by time.AfterFunc
    killTimers,   \* every kill timer made by terminate's time.AfterFunc
    killCalls,    \* calls of cmd.Process.Kill()
    stdinLog,     \* writes made to main's `stdin` writer, in order
    rconLog,      \* invocations of rcon-cli, in order
    child,        \* "notstarted" | "running" | "exited"
    childCode,    \* ExitCode() of the exited child (-1: killed by a signal)
    copyErr,      \* per stream: exec.Cmd's copy goroutine ended with an error
    waitResult,   \* what cmd.Wait() returned: "pending" | "nil" | "ExitError" | "other"
    cmdExitChan,  \* cmdExitChan (buffer of 1)
    sup,          \* the supervisor: "running" | "exited" | "panicked" | "crashed"
    exitCode,     \* the code given to os.Exit
    ctxCancelled, \* cancel() of the shared context was called
    logged,       \* the log lines emitted so far
    \* the writers to the child's stdin
    stdInLock,    \* Console.stdInLock: its holder, or NoHolder
    wpc,          \* per console writer: "idle" | "locked" | "written"
    inLeft,       \* input chunks the console writers may still receive
    \* the fan-out of the child's output
    outLeft,      \* output chunks the child may still write
    produced,     \* per stream: for each chunk written, the consumers whose Write failed
    delivered,    \* per stream and consumer: the chunks it received, in order
    sshRead,      \* per stream: chunks consoleOutRoutine has read from the SSH pipe
    \* the WebSocket console server
    wsCfg,        \* disableAuth, disableOriginCheck, trustedOrigins, logBufferSize
    wsPc,         \* per connection, ServeHTTP: "none" | "rejected" | "panicked" |
                  \*   "acceptFailed" | "welcome" | "loop" | "returned"
    wsReq,        \* per connection: the Origin and Sec-WebSocket-Protocol of its request
    wsResp,       \* per connection: the HTTP status and the JSON body written (0: none)
    clients,      \* websocketServer.clients: the registered session ids
    wsConn,       \* per connection: "none" | "open" | "peerGone" | "closedNow" |
                  \*   "closedInternalError"
    wsFrames,     \* per connection: the frames written to it, in order, with their outcome
    wsHeartbeat,  \* per connection, heartbeatRoutine: "none" | "running" | "failed" | "done"
    wsLeft,       \* text frames the clients may still send
    wsLastFrame,  \* the frame handleIncoming read last, with its connection
    wsCloseLog,   \* per connection: the level and code ServeHTTP logged when its loop ended
    wsLogged,     \* log lines of the WebSocket server, each with its connection
    logHistory,   \* the ring of recent lines: [buf, pos]
    appended,     \* every line ever given to logRing.add, in order
    \* the SSH console server
    remoteSessions, \* Console.remoteSessions: the registered session ids
    sshPc,        \* per session, handleSession: "none" | "loop" | "returned"
    sshConn,      \* per session: "none" | "open" | "gone" (broken), or, once the
                  \*   handler has returned, why its loop ended
    sshFrames,    \* per session: the lines written to it, in order, with their outcome
    \* the host keys of the SSH server
    hkStart,      \* the key files found at startup (constant during a run)
    hkFiles,      \* the key files now: [current, legacy], each Absent or its keys
    hkKeys,       \* the hostKeys struct ensureHostKeys returned: [rsa, ec]
    hkPc,         \* runRemoteShellServer: "start" | "ensured" | "failed" | "serving" |
                  \*   "fatal" (ssh.ListenAndServe has returned)
    \* the named pipe
    fifo,         \* what is at the path of -named-pipe: "absent" | "fifo" | "file"
    pipePc,       \* the goroutine of handleNamedPipe: "off" | "top" (at its select) |
                  \*   "opening" (in os.Open) | "copying" (in io.Copy) | "stopped"
    pipeWriter,   \* an outside process has the FIFO open for writing: "none" | "open"
    pipeCycle,    \* how many times a writer has opened the FIFO
    pipeBuf,      \* the chunks written to the FIFO and not yet read
    pipeSent,     \* every chunk ever written to the FIFO, in order
    pipeLeft,     \* chunks the outside writers may still write
    errorChan,    \* errorChan (buffer of 1)
    pipeErrs,     \* how many errors the goroutine has sent to errorChan
    \* the reader goroutine of handleSession
    sshReader,    \* per session: "none" | "reading" (in terminal.ReadLine) | "sending"
                  \*   (blocked in `input <- line`) | "done" (input closed, returned)
    sshLeft,      \* lines the SSH clients may still send
    \* the locks of the console layers and the goroutines that take them
    wsMu,         \* websocketServer.mu: the goroutine that holds it, or NoHolder
    writeMutex,   \* per client, wsClient.writeMutex: its holder, or NoHolder
    ringMu,       \* logRing.mu, a sync.RWMutex: [w: the writer that holds it or
                  \*   NoHolder, r: the readers that hold it]
    bcPc,         \* per stream, the copy goroutine in wsWriter.Write: "idle" | "wantMu" |
                  \*   "ranging" (in the loop of broadcast, s.mu held) | "writing" (a
                  \*   client's writeMutex held too) | "wantRing" (broadcast has
                  \*   returned) | "adding" (in logHistory.add, ring lock held)
    bcTodo,       \* per stream: the clients the loop of broadcast has still to visit
    bcMsg,        \* per stream: the chunk being written
    lkLeft,       \* chunks the child may still write
    sessionLock,  \* Console.sessionLock: its holder, or NoHolder
    coPc,         \* consoleOutRoutine: "idle" | "wantLock" | "locked" (in
                  \*   CurrentSessions, sessionLock held) | "writing"
    coSnap,       \* the sessions CurrentSessions returned that are still to be written
    coLeft,       \* lines consoleOutRoutine may still read
    lockOrder     \* the pairs <<held, taken>> of lock names seen so far: a goroutine
                  \*   took the second while holding the first

termVars == <<cfg, mainPc, sigLeft, termChan, usr1Chan, timer, timers, killTimers, killCalls,
              stdinLog, rconLog, child, childCode, copyErr, waitResult, cmdExitChan,
              sup, exitCode, ctxCancelled, logged>>

stdinVars == <<stdInLock, wpc, inLeft>>
outVars == <<outLeft, produced, delivered, sshRead>>
\* everything the termination controller and the supervisor leave alone
wsVars == <<wsCfg, wsPc, wsReq, wsResp, clients, wsConn, wsFrames, wsHeartbeat, wsLeft, wsLastFrame,
            wsCloseLog, wsLogged, logHistory, appended>>
hkVars == <<hkStart, hkFiles, hkKeys, hkPc>>
sshVars == <<remoteSessions, sshPc, sshConn, sshFrames, hkVars>>
pipeVars == <<fifo, pipePc, pipeWriter, pipeCycle, pipeBuf, pipeSent, pipeLeft, errorChan,
              pipeErrs>>
readerVars == <<sshReader, sshLeft>>
wsLockVars == <<wsMu, writeMutex, ringMu, bcPc, bcTodo, bcMsg, lkLeft>>
sshLockVars == <<sessionLock, coPc, coSnap, coLeft>>
lockVars == <<wsLockVars, sshLockVars, lockOrder>>
otherVars == <<stdinVars, outVars, wsVars, sshVars, pipeVars, readerVars, lockVars>>

vars == <<termVars, otherVars>>

(***************************************************************************)
(* Configuration.                                                          *)
(***************************************************************************)
Configs ==
    [announceDelay    : AnnounceDelays,   \* args.StopServerAnnounceDelay
     stopDuration     : StopDurations,    \* args.StopDuration
     stopCommand      : StopCommands,     \* args.StopCommand
     rcon             : BOOLEAN,          \* hasRconCli()
     started          : BOOLEAN,          \* cmd.Start() succeeded
     remoteConsole    : BOOLEAN,          \* args.RemoteConsole
     websocketConsole : BOOLEAN,          \* args.WebsocketConsole
     namedPipe        : BOOLEAN,          \* args.NamedPipe != ""
     detachStdin      : BOOLEAN,          \* args.DetachStdin
     bootstrap        : BOOLEAN]          \* args.Bootstrap != ""

\* the configurations of the runs that study the termination controller
TermConfigs ==
    {c \in Configs : ~c.websocketConsole /\ ~c.namedPipe /\ ~c.detachStdin /\ ~c.bootstrap}

\* the configurations of the runs that study the writers to the child's stdin
StdinConfigs ==
    {c \in Configs : c.started /\ ~c.rcon /\ ~c.detachStdin}

\* the configurations of the runs that study the fan-out of the child's output
OutConfigs ==
    {c \in Configs : /\ c.started /\ ~c.rcon /\ ~c.namedPipe /\ ~c.detachStdin /\ ~c.bootstrap
                     /\ c.announceDelay = 0 /\ c.stopDuration = 0}

\* the configurations of the runs that study -detach-stdin
DetachConfigs ==
    {c \in Configs : c.started /\ c.detachStdin /\ c.announceDelay = 0 /\ c.stopDuration = 0}

\* the configurations of the runs that study the named pipe
PipeConfigs ==
    {c \in Configs : /\ c.started /\ c.namedPipe /\ ~c.rcon /\ ~c.bootstrap /\ ~c.detachStdin
                     /\ ~c.remoteConsole /\ ~c.websocketConsole
                     /\ c.announceDelay = 0 /\ c.stopDuration = 0}

\* the configurations of the runs that study the WebSocket console server
WsChildConfigs == {c \in OutConfigs : c.websocketConsole /\ ~c.remoteConsole}

\* the configurations of the runs that study the SSH console server
SshChildConfigs == {c \in OutConfigs : c.remoteConsole /\ ~c.websocketConsole}

\* main.go:127-135: without the remote console, with rcon-cli and no named pipe,
\* `stdin` is reassigned to the supervisor's own os.Stdin
StdinTarget(c) ==
    IF ~c.remoteConsole /\ c.rcon /\ ~c.namedPipe THEN "os.Stdin" ELSE "pipe"

\* fmt.Sprintf("%0.f", d.Seconds()): d in milliseconds, rounded half to even
RoundSeconds(ms) ==
    LET q == ms \div 1000
        r == ms % 1000
    IN  IF r > 500 THEN q + 1
        ELSE IF r < 500 THEN q
        ELSE IF q % 2 = 0 THEN q ELSE q + 1

(***************************************************************************)
(* Command delivery.                                                       *)
(***************************************************************************)
\* a write to main's `stdin`: who wrote, the command, whether it ends in "\n"
StdinWrite(fn, by, cmd, n, nl) ==
    [fn |-> fn, by |-> by, cmd |-> cmd, n |-> n, nl |-> nl, dst |-> StdinTarget(cfg)]

\* a run of rcon-cli with the given command; ok: it exited without error
RconRun(fn, by, cmd, n, ok) ==
    [fn |-> fn, by |-> by, cmd |-> cmd, n |-> n, ok |-> ok]

\* announceStop, through sendCommand: rcon-cli when available (an error is only
\* logged), else strings.Join(cmd, " ") written to stdin, with no newline
AnnounceStop(by, moreLogs, rconOk) ==
    LET n == RoundSeconds(cfg.announceDelay) IN
    /\ IF cfg.rcon
       THEN /\ rconLog' = Append(rconLog, RconRun("announceStop", by, "say", n, rconOk))
            /\ stdinLog' = stdinLog
            /\ logged' = logged \union moreLogs
                           \union {"Sending shutdown announce 'say' to Minecraft server"}
                           \union (IF rconOk THEN {} ELSE {"Failed to send 'say' command"})
       ELSE /\ stdinLog' = Append(stdinLog, StdinWrite("announceStop", by, "say", n, FALSE))
            /\ rconLog' = rconLog
            /\ logged' = logged \union moreLogs
                           \union {"Sending shutdown announce 'say' to Minecraft server"}

\* terminate's default for an empty stop command
StopCommandOf(c) == IF c.stopCommand = "" THEN "stop" ELSE c.stopCommand

\* terminate, its first half: the stop command through rcon-cli, or through the
\* console when rcon-cli is absent or fails
SendStop(by, moreLogs, rconOk) ==
    LET stopCommand == StopCommandOf(cfg) IN
    IF cfg.rcon
    THEN /\ rconLog' = Append(rconLog, RconRun("stopWithRconCli", by, stopCommand, 0, rconOk))
         /\ IF rconOk
            THEN /\ stdinLog' = stdinLog
                 /\ logged' = logged \union moreLogs \union {"Waiting for completion..."}
            ELSE /\ stdinLog' = Append(stdinLog,
                                   StdinWrite("stopViaConsole", by, stopCommand, 0, TRUE))
                 /\ logged' = logged \union moreLogs
                                \union {"Failed to stop using rcon-cli",
                                        "Waiting for completion..."}
    ELSE /\ rconLog' = rconLog
         /\ stdinLog' = Append(stdinLog,
                               StdinWrite("stopViaConsole", by, stopCommand, 0, TRUE))
         /\ logged' = logged \union moreLogs \union {"Waiting for completion..."}

\* terminate that sends the stop command and arms no kill timer
TerminateNoKillTimer(by, moreLogs, rconOk) ==
    /\ SendStop(by, moreLogs, rconOk)
    /\ killTimers' = killTimers

\* terminate: the stop command, then the kill timer when stopDuration != 0
Terminate(by, moreLogs, rconOk) ==
    /\ SendStop(by, moreLogs, rconOk)
    /\ killTimers' = IF cfg.stopDuration # 0 THEN Append(killTimers, "armed") ELSE killTimers

(***************************************************************************)
(* The WebSocket console server: configuration, requests, the ring.        *)
(***************************************************************************)
\* values of the Origin header ("": no header)
Origins == {"", "https://panel.example", "https://panel.example.evil"}
\* values of -websocket-trusted-origins
TrustedOriginLists == {<<>>, <<"https://panel.example">>}

\* the subprotocol name ServeHTTP looks for, and getWebsocketPassword()
ExpectedProto == "mc-server-runner-ws-v1"
WebsocketPassword == "minecraft"
\* the comma-separated values of Sec-WebSocket-Protocol, trimmed
ProtoValues == {ExpectedProto, WebsocketPassword, "letmein", ""}

WsConfigs ==
    [disableAuth        : BOOLEAN,
     disableOriginCheck : BOOLEAN,
     trustedOrigins     : TrustedOriginLists,
     logBufferSize      : 1..MaxCap]

DefaultWsConfig ==
    [disableAuth |-> FALSE, disableOriginCheck |-> FALSE,
     trustedOrigins |-> <<"https://panel.example">>, logBufferSize |-> 1]

NoRequest == [origin |-> "", protocols |-> <<>>]
NoFrame == [c |-> 0, kind |-> "", valid |-> FALSE, type |-> "", content |-> "", nl |-> FALSE]
NoCloseLog == [level |-> "", code |-> 0]
NoResponse == [status |-> 0, type |-> "", reason |-> ""]

\* the keys of a hostKeys struct ("": nil), a key file holding `keys`, a key
\* file that does not exist, and a home directory without key files
NoKeys == [rsa |-> "", ec |-> ""]
KeyFile(keys) == [exists |-> TRUE, rsa |-> keys.rsa, ec |-> keys.ec]
Absent == [exists |-> FALSE, rsa |-> "", ec |-> ""]
NoKeyFiles == [current |-> Absent, legacy |-> Absent]
\* what a key file can hold at startup: nothing that parses, the RSA key of an
\* older version alone, or both keys
StoredKeys == {NoKeys, [rsa |-> "rsaOld", ec |-> ""], [rsa |-> "rsaOld", ec |-> "ecOld"]}
KeyFileStates ==
    [current : {Absent} \union {KeyFile(k) : k \in StoredKeys},
     legacy : {Absent} \union {KeyFile(k) : k \in StoredKeys}]

\* container/ring: ring.New(n) is n nil values; lr.r points at the last one written
Nil == 0
newLogRing(logBufferSize) == [buf |-> [i \in 1..logBufferSize |-> Nil], pos |-> 1]

\* lr.r.Next()
RingNext(lr, i) == IF i = Len(lr.buf) THEN 1 ELSE i + 1

\* logRing.add: lr.r = lr.r.Next(); lr.r.Value = s
RingAdd(lr, line) ==
    [buf |-> [lr.buf EXCEPT ![RingNext(lr, lr.pos)] = line], pos |-> RingNext(lr, lr.pos)]

\* the values met by startNode.Do, going n steps from position i
RECURSIVE RingDo(_, _, _)
RingDo(lr, i, n) ==
    IF n = 0 THEN <<>>
    ELSE (IF lr.buf[i] = Nil THEN <<>> ELSE <<lr.buf[i]>>) \o RingDo(lr, RingNext(lr, i), n - 1)

\* getAll that starts at lr.r, the newest line, instead of lr.r.Next()
RingGetAllFromNewest(lr) == RingDo(lr, lr.pos, Len(lr.buf))

\* logRing.getAll: from lr.r.Next() around the whole ring, nil values left out
RingGetAll(lr) == RingDo(lr, RingNext(lr, lr.pos), Len(lr.buf))

(***************************************************************************)
(* Initial state: main has parsed its arguments, started the child (or     *)
(* failed to) and is about to enter its select loop.                       *)
(***************************************************************************)
InitMain(configs, nSignals, nInputs, nOutputs) ==
    /\ cfg \in configs
    /\ sigLeft = nSignals
    /\ termChan = FALSE
    /\ usr1Chan = FALSE
    /\ timer = NoTimer
    /\ timers = <<>>
    /\ killTimers = <<>>
    /\ killCalls = 0
    /\ stdinLog = <<>>
    /\ rconLog = <<>>
    /\ child = IF cfg.started THEN "running" ELSE "notstarted"
    /\ childCode = 0
    /\ copyErr = [s \in Streams |-> FALSE]
    /\ waitResult = "pending"
    /\ cmdExitChan = <<>>
    /\ sup = "running"
    /\ exitCode = 0
    /\ ctxCancelled = FALSE
    /\ logged = IF cfg.started THEN {} ELSE {"Failed to start"}
    /\ stdInLock = NoHolder
    /\ wpc = [w \in LockedWriterIds |-> "idle"]
    /\ inLeft = nInputs
    /\ outLeft = nOutputs
    /\ produced = [s \in Streams |-> <<>>]
    /\ delivered = [s \in Streams |-> [w \in ConsumerNames |-> <<>>]]
    /\ sshRead = [s \in Streams |-> 0]

\* main is past the setup of the named pipe: about to write the bootstrap file,
\* or in its loop
InitSupervisor(configs, nSignals, nInputs, nOutputs) ==
    /\ InitMain(configs, nSignals, nInputs, nOutputs)
    /\ mainPc = IF cfg.bootstrap THEN "boot" ELSE "loop"

\* handleNamedPipe has not been called: the path holds one of `fifos`
InitNamedPipe(fifos, nChunks) ==
    /\ fifo \in fifos
    /\ pipePc = "off"
    /\ pipeWriter = "none"
    /\ pipeCycle = 0
    /\ pipeBuf = <<>>
    /\ pipeSent = <<>>
    /\ pipeLeft = nChunks
    /\ errorChan = <<>>
    /\ pipeErrs = 0

\* runWebsocketServer: an empty registry and an empty ring of wsCfg.logBufferSize
InitWebsocket(wsConfigs, nFrames) ==
    /\ wsCfg \in wsConfigs
    /\ wsPc = [c \in 1..MaxClients |-> "none"]
    /\ wsReq = [c \in 1..MaxClients |-> NoRequest]
    /\ wsResp = [c \in 1..MaxClients |-> NoResponse]
    /\ clients = {}
    /\ wsConn = [c \in 1..MaxClients |-> "none"]
    /\ wsFrames = [c \in 1..MaxClients |-> <<>>]
    /\ wsHeartbeat = [c \in 1..MaxClients |-> "none"]
    /\ wsLeft = nFrames
    /\ wsLastFrame = NoFrame
    /\ wsCloseLog = [c \in 1..MaxClients |-> NoCloseLog]
    /\ wsLogged = {}
    /\ logHistory = newLogRing(wsCfg.logBufferSize)
    /\ appended = <<>>

\* makeConsole: an empty registry
InitSessions ==
    /\ remoteSessions = {}
    /\ sshPc = [k \in 1..MaxSessions |-> "none"]
    /\ sshConn = [k \in 1..MaxSessions |-> "none"]
    /\ sshFrames = [k \in 1..MaxSessions |-> <<>>]

\* runRemoteShellServer has not run yet; the home directory holds one of `files`
InitHostKeys(files) ==
    /\ hkStart \in files
    /\ hkFiles = hkStart
    /\ hkKeys = NoKeys
    /\ hkPc = "start"

\* no session has a reader goroutine; the clients will send nLines lines
InitReader(nLines) ==
    /\ sshReader = [k \in 1..MaxSessions |-> "none"]
    /\ sshLeft = nLines

\* no goroutine holds a lock or is inside wsWriter.Write, consoleOutRoutine or
\* a handler; the child will write nChunks chunks, of which consoleOutRoutine
\* will read nLines
InitLocks(nChunks, nLines) ==
    /\ wsMu = NoHolder
    /\ writeMutex = [c \in 1..MaxClients |-> NoHolder]
    /\ ringMu = [w |-> NoHolder, r |-> {}]
    /\ bcPc = [s \in Streams |-> "idle"]
    /\ bcTodo = [s \in Streams |-> {}]
    /\ bcMsg = [s \in Streams |-> 0]
    /\ lkLeft = nChunks
    /\ sessionLock = NoHolder
    /\ coPc = "idle"
    /\ coSnap = {}
    /\ coLeft = nLines
    /\ lockOrder = {}

InitRemoteShell ==
    /\ InitSessions
    /\ InitHostKeys({NoKeyFiles})
    /\ InitReader(0)
    /\ InitLocks(0, 0)

InitAll(configs, nSignals, nInputs, nOutputs, wsConfigs, nFrames) ==
    /\ InitSupervisor(configs, nSignals, nInputs, nOutputs)
    /\ InitWebsocket(wsConfigs, nFrames)
    /\ InitRemoteShell
    /\ InitNamedPipe({"absent"}, 0)

InitState(configs, nSignals, nInputs, nOutputs) ==
    InitAll(configs, nSignals, nInputs, nOutputs, {DefaultWsConfig}, 0)

Init == InitState(TermConfigs, MaxSignals, 0, 0)

(***************************************************************************)
(* The environment.                                                        *)
(***************************************************************************)
\* the OS delivers a signal: signal.Notify's channel keeps one, drops the rest
DeliverSignal ==
    /\ sup = "running"
    /\ sigLeft > 0
    /\ sigLeft' = sigLeft - 1
    /\ \/ termChan' = TRUE /\ usr1Chan' = usr1Chan
       \/ usr1Chan' = TRUE /\ termChan' = termChan
    /\ UNCHANGED <<otherVars, mainPc, cfg, timer, timers, killTimers, killCalls, stdinLog, rconLog, child,
                   childCode, copyErr, waitResult, cmdExitChan, sup, exitCode,
                   ctxCancelled, logged>>

\* the child exits by itself (because of the stop command, or for its own reasons)
ChildExits ==
    /\ sup = "running"
    /\ child = "running"
    /\ child' = "exited"
    /\ childCode' \in ExitCodes
    /\ UNCHANGED <<otherVars, mainPc, cfg, sigLeft, termChan, usr1Chan, timer, timers, killTimers, killCalls,
                   stdinLog, rconLog, copyErr, waitResult, cmdExitChan, sup, exitCode,
                   ctxCancelled, logged>>

\* a write of the child's output to io.MultiWriter fails: exec's copy goroutine
\* ends with that error
OutputCopyFails ==
    /\ sup = "running"
    /\ child = "running"
    /\ \E s \in Streams :
         /\ ~copyErr[s]
         /\ copyErr' = [copyErr EXCEPT ![s] = TRUE]
    /\ UNCHANGED <<otherVars, mainPc, cfg, sigLeft, termChan, usr1Chan, timer, timers, killTimers, killCalls,
                   stdinLog, rconLog, child, childCode, waitResult, cmdExitChan, sup,
                   exitCode, ctxCancelled, logged>>

(***************************************************************************)
(* The main select loop (main.go:183-220).                                 *)
(***************************************************************************)
\* HandleSigterm with the announce delay ignored: the stop command at once
HandleSigtermNoDelay ==
    /\ sup = "running"
    /\ mainPc = "loop"
    /\ termChan
    /\ termChan' = FALSE
    /\ \E rconOk \in BOOLEAN :
         Terminate(MainLoop, {"SIGTERM caught", "gracefully stopping server..."}, rconOk)
    /\ UNCHANGED <<timer, timers>>
    /\ UNCHANGED <<otherVars, mainPc, cfg, sigLeft, usr1Chan, killCalls, child, childCode, copyErr, waitResult,
                   cmdExitChan, sup, exitCode, ctxCancelled>>

HandleSigterm ==
    /\ sup = "running"
    /\ mainPc = "loop"
    /\ termChan
    /\ termChan' = FALSE
    /\ \E rconOk \in BOOLEAN :
         IF cfg.announceDelay > 0
         THEN /\ AnnounceStop(MainLoop, {"SIGTERM caught", "gracefully stopping server...",
                                  "Sleeping before server stop"}, rconOk)
              /\ timers' = Append(timers, "armed")
              /\ timer' = Len(timers) + 1
              /\ killTimers' = killTimers
         ELSE /\ Terminate(MainLoop, {"SIGTERM caught", "gracefully stopping server..."}, rconOk)
              /\ UNCHANGED <<timer, timers>>
    /\ UNCHANGED <<otherVars, mainPc, cfg, sigLeft, usr1Chan, killCalls, child, childCode, copyErr, waitResult,
                   cmdExitChan, sup, exitCode, ctxCancelled>>

\* HandleSigusr1 with the result of timer.Stop() ignored
HandleSigusr1IgnoresStop ==
    /\ sup = "running"
    /\ mainPc = "loop"
    /\ usr1Chan
    /\ usr1Chan' = FALSE
    /\ timers' = IF timer # NoTimer /\ timers[timer] = "armed"
                 THEN [timers EXCEPT ![timer] = "stopped"] ELSE timers
    /\ \E rconOk \in BOOLEAN :
         Terminate(MainLoop, {"SIGUSR1 caught, bypassing running StopServerAnnounceDelay"}, rconOk)
    /\ UNCHANGED <<otherVars, mainPc, cfg, sigLeft, termChan, timer, killCalls, child, childCode, copyErr,
                   waitResult, cmdExitChan, sup, exitCode, ctxCancelled>>

\* HandleSigusr1 that acts only on a timer: without one the signal is only logged
HandleSigusr1NeedsTimer ==
    /\ sup = "running"
    /\ mainPc = "loop"
    /\ usr1Chan
    /\ usr1Chan' = FALSE
    /\ IF timer # NoTimer /\ timers[timer] = "armed"
       THEN /\ timers' = [timers EXCEPT ![timer] = "stopped"]
            /\ \E rconOk \in BOOLEAN :
                 Terminate(MainLoop, {"SIGUSR1 caught, bypassing running StopServerAnnounceDelay"},
                           rconOk)
       ELSE /\ logged' = logged \union
                 {"SIGUSR1 caught, StopServerAnnounceDelay already elapsed, server is already stopping"}
            /\ UNCHANGED <<timers, killTimers, stdinLog, rconLog>>
    /\ UNCHANGED <<otherVars, mainPc, cfg, sigLeft, termChan, timer, killCalls, child, childCode, copyErr,
                   waitResult, cmdExitChan, sup, exitCode, ctxCancelled>>

HandleSigusr1 ==
    /\ sup = "running"
    /\ mainPc = "loop"
    /\ usr1Chan
    /\ usr1Chan' = FALSE
    /\ IF timer # NoTimer
       THEN IF timers[timer] = "armed"
            THEN \* timer.Stop() returns true
                 /\ timers' = [timers EXCEPT ![timer] = "stopped"]
                 /\ \E rconOk \in BOOLEAN :
                      Terminate(MainLoop, {"SIGUSR1 caught, bypassing running StopServerAnnounceDelay"},
                                rconOk)
            ELSE \* timer.Stop() returns false: already expired or already stopped
                 /\ logged' = logged \union
                      {"SIGUSR1 caught, StopServerAnnounceDelay already elapsed, server is already stopping"}
                 /\ UNCHANGED <<timers, killTimers, stdinLog, rconLog>>
       ELSE /\ \E rconOk \in BOOLEAN :
                 Terminate(MainLoop, {"SIGUSR1 caught, gracefully stopping server... (without StopServerAnnounceDelay)"},
                           rconOk)
            /\ timers' = timers
    /\ UNCHANGED <<otherVars, mainPc, cfg, sigLeft, termChan, timer, killCalls, child, childCode, copyErr,
                   waitResult, cmdExitChan, sup, exitCode, ctxCancelled>>

\* case exitCode := <-cmdExitChan
MainExit ==
    /\ sup = "running"
    /\ mainPc = "loop"
    /\ cmdExitChan # <<>>
    /\ ctxCancelled' = TRUE
    /\ exitCode' = Head(cmdExitChan)
    /\ cmdExitChan' = <<>>
    /\ sup' = "exited"
    /\ logged' = logged \union {"Done"}
    /\ UNCHANGED <<otherVars, mainPc, cfg, sigLeft, termChan, usr1Chan, timer, timers, killTimers, killCalls,
                   stdinLog, rconLog, child, childCode, copyErr, waitResult>>

(***************************************************************************)
(* Timer callbacks and the cmd.Wait goroutine.                             *)
(***************************************************************************)
\* the function given to time.AfterFunc(args.StopServerAnnounceDelay, ...)
\* AnnounceTimerFire for a timer whose Stop() did not keep the callback from running
AnnounceTimerFireAfterStop ==
    /\ sup = "running"
    /\ \E i \in 1..Len(timers) :
         /\ timers[i] \in {"armed", "stopped"}
         /\ timers' = [timers EXCEPT ![i] = IF timers[i] = "armed" THEN "fired" ELSE "stopped"]
         /\ \E rconOk \in BOOLEAN :
              Terminate(TimerCallback(i), {"StopServerAnnounceDelay elapsed, stopping server"}, rconOk)
    /\ UNCHANGED <<otherVars, mainPc, cfg, sigLeft, termChan, usr1Chan, timer, killCalls, child, childCode,
                   copyErr, waitResult, cmdExitChan, sup, exitCode, ctxCancelled>>

AnnounceTimerFire ==
    /\ sup = "running"
    /\ \E i \in 1..Len(timers) :
         /\ timers[i] = "armed"
         /\ timers' = [timers EXCEPT ![i] = "fired"]
         /\ \E rconOk \in BOOLEAN :
              Terminate(TimerCallback(i), {"StopServerAnnounceDelay elapsed, stopping server"}, rconOk)
    /\ UNCHANGED <<otherVars, mainPc, cfg, sigLeft, termChan, usr1Chan, timer, killCalls, child, childCode,
                   copyErr, waitResult, cmdExitChan, sup, exitCode, ctxCancelled>>

\* the function given to time.AfterFunc(stopDuration, ...): cmd.Process.Kill()
KillTimerFire ==
    /\ sup = "running"
    /\ \E j \in 1..Len(killTimers) :
         /\ killTimers[j] = "armed"
         /\ killTimers' = [killTimers EXCEPT ![j] = "fired"]
    /\ IF child = "notstarted"
       THEN \* cmd.Process is nil: the dereference panics and the program dies
            /\ sup' = "panicked"
            /\ exitCode' = 2
            /\ logged' = logged \union {"Took too long, so killing server process"}
            /\ UNCHANGED <<killCalls, child, childCode>>
       ELSE /\ killCalls' = killCalls + 1
            /\ UNCHANGED <<sup, exitCode>>
            /\ IF child = "running"
               THEN /\ child' = "exited"
                    /\ childCode' = -1
                    /\ logged' = logged \union {"Took too long, so killing server process"}
               ELSE \* the child is gone: Kill fails once Wait has reaped it
                    /\ UNCHANGED <<child, childCode>>
                    /\ logged' = logged \union {"Took too long, so killing server process"}
                         \union (IF waitResult # "pending"
                                 THEN {"Failed to forcefully kill process"} ELSE {})
    /\ UNCHANGED <<otherVars, mainPc, cfg, sigLeft, termChan, usr1Chan, timer, timers, stdinLog, rconLog,
                   copyErr, waitResult, cmdExitChan, ctxCancelled>>

\* what cmd.Wait() returns: an error at once when the child was never started,
\* an *exec.ExitError for an unsuccessful exit, the copy goroutines' error for a
\* successful exit whose output copy failed, nil otherwise
WaitOutcome ==
    IF child = "notstarted" THEN "other"
    ELSE IF childCode # 0 THEN "ExitError"
    ELSE IF \E s \in Streams : copyErr[s] THEN "other"
    ELSE "nil"

\* the goroutine of main.go:165-179
WaitReturns ==
    /\ sup = "running"
    /\ waitResult = "pending"
    /\ child # "running"
    /\ waitResult' = WaitOutcome
    /\ IF WaitOutcome = "ExitError"
       THEN /\ cmdExitChan' = <<childCode>>
            /\ logged' = logged \union {"Minecraft server failed"}
       ELSE IF WaitOutcome = "nil"
       THEN /\ cmdExitChan' = <<0>>
            /\ logged' = logged
       ELSE /\ UNCHANGED <<cmdExitChan, logged>>
    /\ UNCHANGED <<otherVars, mainPc, cfg, sigLeft, termChan, usr1Chan, timer, timers, killTimers, killCalls,
                   stdinLog, rconLog, child, childCode, copyErr, sup, exitCode,
                   ctxCancelled>>

NextTerm ==
    \/ DeliverSignal
    \/ ChildExits
    \/ OutputCopyFails
    \/ HandleSigterm
    \/ HandleSigusr1
    \/ MainExit
    \/ AnnounceTimerFire
    \/ KillTimerFire
    \/ WaitReturns

Next == NextTerm

Spec == Init /\ [][Next]_vars

(***************************************************************************)
(* The writers to the child's stdin.                                       *)
(***************************************************************************)
\* who writes through Console.WriteToStdIn: with the remote console, every SSH
\* session (handleSession) and, unless detached, consoleInRoutine
LockedWriters(c) ==
    IF c.remoteConsole
    THEN {SshSession(k) : k \in 1..NumSsh}
           \union (IF c.detachStdin THEN {} ELSE {LocalStdin})
    ELSE {}

\* who writes to the stdin pipe itself: every WebSocket client (s.stdin.Write),
\* the named-pipe loop (io.Copy) and, without the remote console, relayStdin
\* (io.Copy), which main starts unless the child reads os.Stdin directly
DirectWriters(c) ==
    (IF c.websocketConsole THEN {WsClient(k) : k \in 1..NumWs} ELSE {})
      \union (IF c.namedPipe THEN {NamedPipe} ELSE {})
      \union (IF ~c.remoteConsole /\ ~(c.rcon /\ ~c.namedPipe) THEN {LocalStdin} ELSE {})

WriterFn(w) ==
    IF w[1] = "ssh" THEN "handleSession"
    ELSE IF w[1] = "ws" THEN "handleIncoming"
    ELSE IF w[1] = "pipe" THEN "handleNamedPipe"
    ELSE IF cfg.remoteConsole THEN "consoleInRoutine" ELSE "relayStdin"

\* a chunk of console input written to the stdin pipe
InputWrite(w, nl) ==
    [fn |-> WriterFn(w), by |-> w, cmd |-> "input", n |-> 0, nl |-> nl, dst |-> "pipe"]

\* main.go:142-151: the bootstrap file's content, written by main before its loop
WriteBootstrap ==
    /\ sup = "running"
    /\ mainPc = "boot"
    /\ mainPc' = "loop"
    /\ \E nl \in BOOLEAN :
         stdinLog' = Append(stdinLog, [fn |-> "main", by |-> MainLoop, cmd |-> "bootstrap",
                                       n |-> 0, nl |-> nl, dst |-> StdinTarget(cfg)])
    /\ UNCHANGED <<otherVars, cfg, sigLeft, termChan, usr1Chan, timer, timers, killTimers,
                   killCalls, rconLog, child, childCode, copyErr, waitResult, cmdExitChan,
                   sup, exitCode, ctxCancelled, logged>>

\* Console.WriteToStdIn, c.stdInLock.Lock(): a line has been read
WriteToStdInLock ==
    /\ sup = "running"
    /\ inLeft > 0
    /\ stdInLock = NoHolder
    /\ \E w \in LockedWriters(cfg) :
         /\ wpc[w] = "idle"
         /\ stdInLock' = w
         /\ wpc' = [wpc EXCEPT ![w] = "locked"]
    /\ inLeft' = inLeft - 1
    /\ UNCHANGED <<termVars, outVars, wsVars, sshVars, pipeVars, readerVars, lockVars>>

\* Console.WriteToStdIn, c.stdInPipe.Write(p): the line and its "\n"
WriteToStdInWrite ==
    /\ sup = "running"
    /\ \E w \in LockedWriters(cfg) :
         /\ wpc[w] = "locked"
         /\ wpc' = [wpc EXCEPT ![w] = "written"]
         /\ stdinLog' = Append(stdinLog, InputWrite(w, TRUE))
    /\ UNCHANGED <<outVars, wsVars, sshVars, pipeVars, readerVars, lockVars, stdInLock, inLeft, cfg, mainPc, sigLeft, termChan, usr1Chan, timer,
                   timers, killTimers, killCalls, rconLog, child, childCode, copyErr,
                   waitResult, cmdExitChan, sup, exitCode, ctxCancelled, logged>>

\* Console.WriteToStdIn, c.stdInLock.Unlock()
WriteToStdInUnlock ==
    /\ sup = "running"
    /\ \E w \in LockedWriters(cfg) :
         /\ wpc[w] = "written"
         /\ wpc' = [wpc EXCEPT ![w] = "idle"]
         /\ stdInLock' = NoHolder
    /\ UNCHANGED <<termVars, outVars, wsVars, sshVars, pipeVars, readerVars, lockVars, inLeft>>

\* a write to the stdin pipe by a goroutine that does not go through the Console:
\* a WebSocket stdin message (newline-terminated), or one buffer of io.Copy from
\* os.Stdin or from the FIFO (which may end in the middle of a line)
DirectStdinWrite ==
    /\ sup = "running"
    /\ inLeft > 0
    /\ inLeft' = inLeft - 1
    /\ \E w \in DirectWriters(cfg) :
         /\ w = NamedPipe => mainPc = "loop"
         /\ \E nl \in (IF w[1] = "ws" THEN {TRUE} ELSE BOOLEAN) :
              stdinLog' = Append(stdinLog, InputWrite(w, nl))
    /\ UNCHANGED <<outVars, wsVars, sshVars, pipeVars, readerVars, lockVars, stdInLock, wpc, cfg, mainPc, sigLeft, termChan, usr1Chan, timer,
                   timers, killTimers, killCalls, rconLog, child, childCode, copyErr,
                   waitResult, cmdExitChan, sup, exitCode, ctxCancelled, logged>>

NextStdin ==
    \/ NextTerm
    \/ WriteBootstrap
    \/ WriteToStdInLock
    \/ WriteToStdInWrite
    \/ WriteToStdInUnlock
    \/ DirectStdinWrite

SpecStdin == InitState(StdinConfigs, MaxStdinSignals, MaxInputs, 0) /\ [][NextStdin]_vars

\* the writers of console input alone, in the runs with -detach-stdin
NextDetach ==
    \/ WriteBootstrap
    \/ WriteToStdInLock
    \/ WriteToStdInWrite
    \/ WriteToStdInUnlock
    \/ DirectStdinWrite

SpecDetach == InitState(DetachConfigs, 0, MaxInputs, 0) /\ [][NextDetach]_vars

(***************************************************************************)
(* The fan-out of the child's stdout and stderr.                           *)
(***************************************************************************)
\* main.go:77-98: the writers given to io.MultiWriter, in order
Consumers(c) ==
    <<"terminal">> \o (IF c.websocketConsole THEN <<"ws">> ELSE <<>>)
                   \o (IF c.remoteConsole THEN <<"sshPipe">> ELSE <<>>)

\* the writers whose Write can return an error (wsWriter.Write never does)
Fallible(c) == {"terminal"} \union (IF c.remoteConsole THEN {"sshPipe"} ELSE {})

\* io.MultiWriter's Write: the writers are called in order and the first error
\* stops the write; writer i is called when no writer before it failed
Called(ws, failing, i) == \A j \in 1..(i - 1) : ws[j] \notin failing

MultiWriterWrite(ws, failing, del, chunk) ==
    [w \in ConsumerNames |->
        IF \E i \in 1..Len(ws) : ws[i] = w /\ Called(ws, failing, i) /\ w \notin failing
        THEN Append(del[w], chunk)
        ELSE del[w]]

\* websocketServer.broadcast: the message the switch on msgType builds
BroadcastMessage(msgType, content, ok) ==
    [type |-> IF msgType = "stdout" THEN "stdout"
              ELSE IF msgType = "stderr" THEN "stderr" ELSE "null",
     content |-> content, recentLines |-> <<>>, ok |-> ok]

\* the registered clients a write to which cannot succeed
DeadClients == {c \in clients : wsConn[c] # "open"}

\* websocketServer.broadcast, under s.mu: one wsjson.Write per registered client;
\* a client whose write fails (`failing`) is logged, closed with
\* StatusInternalError and deleted from the map, and the loop goes on
Broadcast(msgType, content, failing) ==
    /\ wsFrames' = [c \in 1..MaxClients |->
                      IF c \in clients
                      THEN Append(wsFrames[c], BroadcastMessage(msgType, content, c \notin failing))
                      ELSE wsFrames[c]]
    /\ wsLogged' = wsLogged \union {<<"failed to send message to client", c>> : c \in failing}
    /\ wsConn' = [c \in 1..MaxClients |->
                    IF c \in failing /\ wsConn[c] = "open" THEN "closedInternalError"
                    ELSE wsConn[c]]
    /\ clients' = clients \ failing

\* wsWriter.Write: broadcast, then logHistory.add; it never returns an error
WsWriterWrite(writerType, content) ==
    /\ \E failing \in SUBSET clients :
         /\ DeadClients \subseteq failing
         /\ Broadcast(writerType, content, failing)
    /\ logHistory' = RingAdd(logHistory, content)
    /\ appended' = Append(appended, content)

\* the content of the next chunk: chunks are numbered in the order written
NextContent == Len(produced["stdout"]) + Len(produced["stderr"]) + 1

\* the child writes a chunk to stream s and exec's copy goroutine hands it to the
\* MultiWriter; `failing` are the consumers whose Write fails at this moment
ChildOutput ==
    /\ sup = "running"
    /\ child = "running"
    /\ outLeft > 0
    /\ outLeft' = outLeft - 1
    /\ \E s \in Streams :
         /\ ~copyErr[s]
         /\ \E failing \in SUBSET Fallible(cfg) :
              /\ produced' = [produced EXCEPT ![s] = Append(@, failing)]
              /\ delivered' = [delivered EXCEPT ![s] =
                                 MultiWriterWrite(Consumers(cfg), failing, @,
                                                  Len(produced[s]) + 1)]
              /\ copyErr' = [copyErr EXCEPT ![s] = (failing # {})]
              /\ IF \E i \in 1..Len(Consumers(cfg)) :
                       Consumers(cfg)[i] = "ws" /\ Called(Consumers(cfg), failing, i)
                 THEN WsWriterWrite(s, NextContent)
                 ELSE UNCHANGED <<wsFrames, wsLogged, wsConn, clients, logHistory, appended>>
    /\ UNCHANGED <<wsCfg, wsPc, wsReq, wsResp, wsHeartbeat, wsLeft, wsLastFrame, wsCloseLog, sshVars, pipeVars, readerVars, lockVars>>
    /\ UNCHANGED <<stdinVars, sshRead, cfg, mainPc, sigLeft, termChan, usr1Chan, timer, timers,
                   killTimers, killCalls, stdinLog, rconLog, child, childCode, waitResult,
                   cmdExitChan, sup, exitCode, ctxCancelled, logged>>

\* the child writes a chunk to a stream whose copy goroutine has ended: nobody
\* reads the pipe any more
ChildOutputLost ==
    /\ sup = "running"
    /\ child = "running"
    /\ outLeft > 0
    /\ outLeft' = outLeft - 1
    /\ \E s \in Streams :
         /\ copyErr[s]
         /\ produced' = [produced EXCEPT ![s] = Append(@, {})]
    /\ UNCHANGED <<termVars, stdinVars, wsVars, sshVars, pipeVars, readerVars, lockVars, delivered, sshRead>>

\* the registered sessions a write to which cannot succeed
DeadSessions == {k \in remoteSessions : sshConn[k] # "open"}

\* consoleOutRoutine: the next line of the SSH pipe goes to os.Stdout (an error
\* is logged) and then to every session of console.CurrentSessions(); the result
\* of session.Write is dropped
ConsoleOutRoutine ==
    /\ sup = "running"
    /\ cfg.remoteConsole
    /\ \E s \in Streams :
         /\ sshRead[s] < Len(delivered[s]["sshPipe"])
         /\ sshRead' = [sshRead EXCEPT ![s] = @ + 1]
         /\ LET chunk == delivered[s]["sshPipe"][sshRead[s] + 1] IN
            \E stdoutFails \in BOOLEAN :
              /\ delivered' = [delivered EXCEPT
                    ![s]["terminal"] = IF stdoutFails THEN @ ELSE Append(@, chunk),
                    ![s]["sshSession"] = Append(@, chunk)]
              /\ logged' = IF stdoutFails THEN logged \union {"Failed to write to stdout"}
                           ELSE logged
              /\ \E failing \in SUBSET remoteSessions :
                   /\ DeadSessions \subseteq failing
                   /\ sshFrames' = [k \in 1..MaxSessions |->
                         IF k \in remoteSessions
                         THEN Append(sshFrames[k],
                                     [stream |-> s, chunk |-> chunk, ok |-> k \notin failing])
                         ELSE sshFrames[k]]
    /\ UNCHANGED <<wsVars, remoteSessions, sshPc, sshConn, hkVars, pipeVars, readerVars, lockVars>>
    /\ UNCHANGED <<stdinVars, outLeft, produced, cfg, mainPc, sigLeft, termChan, usr1Chan,
                   timer, timers, killTimers, killCalls, stdinLog, rconLog, child, childCode,
                   copyErr, waitResult, cmdExitChan, sup, exitCode, ctxCancelled>>

NextOut ==
    \/ ChildOutput
    \/ ChildOutputLost
    \/ ConsoleOutRoutine
    \/ ChildExits
    \/ WaitReturns
    \/ MainExit

SpecOut == InitState(OutConfigs, 0, 0, MaxOutputs) /\ [][NextOut]_vars

(***************************************************************************)
(* The WebSocket console server (websocketServer.ServeHTTP and its         *)
(* goroutines).                                                            *)
(***************************************************************************)
\* isOriginAllowed that accepts every origin once some origin is trusted
isOriginAllowedAnyOrigin(origin, trustedOrigins) == trustedOrigins # <<>>

\* slices.Contains(trustedOrigins, origin)
isOriginAllowed(origin, trustedOrigins) ==
    \E i \in 1..Len(trustedOrigins) : trustedOrigins[i] = origin

\* the loop of extractAuthTokenFromProtocols from index i (1-based) on: the test
\* `i+1 > len(protocols)` is never true inside the loop, so a protocol name in
\* the last place makes protocols[i+1] an index out of range
RECURSIVE ExtractFrom(_, _, _)
ExtractFrom(protocols, expectedProto, i) ==
    IF i > Len(protocols) THEN [token |-> "", exists |-> FALSE, panics |-> FALSE]
    ELSE IF protocols[i] = expectedProto
         THEN IF i > Len(protocols) + 1
              THEN [token |-> "", exists |-> FALSE, panics |-> FALSE]
              ELSE IF i + 1 > Len(protocols)
                   THEN [token |-> "", exists |-> FALSE, panics |-> TRUE]
                   ELSE IF protocols[i + 1] # ""
                        THEN [token |-> protocols[i + 1], exists |-> TRUE, panics |-> FALSE]
                        ELSE ExtractFrom(protocols, expectedProto, i + 1)
         ELSE ExtractFrom(protocols, expectedProto, i + 1)

\* <<>> is the header absent (or empty)
extractAuthTokenFromProtocols(protocols, expectedProto) ==
    IF protocols = <<>> THEN [token |-> "", exists |-> FALSE, panics |-> FALSE]
    ELSE ExtractFrom(protocols, expectedProto, 1)

authErrorMessage(status, reason) == [status |-> status, type |-> "auth_err", reason |-> reason]

\* what ServeHTTP decides before websocket.Accept: "forbidden" | "unauthorized" |
\* "panic" | "accept"
Admission(wc, req) ==
    IF ~wc.disableOriginCheck /\ ~isOriginAllowed(req.origin, wc.trustedOrigins)
    THEN "forbidden"
    ELSE IF wc.disableAuth THEN "accept"
    ELSE LET r == extractAuthTokenFromProtocols(req.protocols, ExpectedProto) IN
         IF r.panics THEN "panic"
         ELSE IF ~r.exists \/ r.token # WebsocketPassword THEN "unauthorized"
         ELSE "accept"

\* ServeHTTP for the request req of connection c, up to the start of the heartbeat
ServeHTTP(c, req) ==
    /\ sup = "running"
    /\ wsPc[c] = "none"
    /\ wsReq' = [wsReq EXCEPT ![c] = req]
    /\ LET a == Admission(wsCfg, req) IN
       IF a = "forbidden"
       THEN /\ wsResp' = [wsResp EXCEPT ![c] = authErrorMessage(403, "origin not allowed")]
            /\ wsLogged' = wsLogged \union {<<"Websocket connection rejected: origin not allowed", c>>}
            /\ wsPc' = [wsPc EXCEPT ![c] = "rejected"]
            /\ UNCHANGED <<clients, wsConn, wsHeartbeat>>
       ELSE IF a = "unauthorized"
       THEN /\ wsResp' = [wsResp EXCEPT ![c] = authErrorMessage(401, "invalid password")]
            /\ wsLogged' = wsLogged \union {<<"Websocket connection rejected: invalid password", c>>}
            /\ wsPc' = [wsPc EXCEPT ![c] = "rejected"]
            /\ UNCHANGED <<clients, wsConn, wsHeartbeat>>
       ELSE IF a = "panic"
       THEN \* net/http recovers the panic of the handler and drops the connection
            /\ wsPc' = [wsPc EXCEPT ![c] = "panicked"]
            /\ UNCHANGED <<wsResp, wsLogged, clients, wsConn, wsHeartbeat>>
       ELSE \/ \* websocket.Accept fails and has written its own error status
               /\ wsResp' = [wsResp EXCEPT ![c] = [status |-> 400, type |-> "", reason |-> ""]]
               /\ wsLogged' = wsLogged \union {<<"websocket accept failed", c>>}
               /\ wsPc' = [wsPc EXCEPT ![c] = "acceptFailed"]
               /\ UNCHANGED <<clients, wsConn, wsHeartbeat>>
            \/ /\ wsResp' = [wsResp EXCEPT ![c] = [status |-> 101, type |-> "", reason |-> ""]]
               /\ clients' = clients \union {c}
               /\ wsConn' = [wsConn EXCEPT ![c] = "open"]
               /\ wsLogged' = wsLogged \union {<<"Websocket connection opened", c>>}
               /\ wsHeartbeat' = [wsHeartbeat EXCEPT ![c] = "running"]
               /\ wsPc' = [wsPc EXCEPT ![c] = "welcome"]
    /\ UNCHANGED <<termVars, stdinVars, outVars, sshVars, pipeVars, readerVars, lockVars, wsCfg, wsFrames, wsLeft, wsLastFrame, wsCloseLog, logHistory,
                   appended>>

\* the headers of the upgrade requests: every list of at most two values, and
\* some of three
ProtoHeaders ==
    {<<>>} \union {<<a>> : a \in ProtoValues}
           \union {<<a, b>> : a \in ProtoValues, b \in ProtoValues}
           \union {<<"chat", ExpectedProto, b>> : b \in ProtoValues}
           \union {<<ExpectedProto, "", b>> : b \in ProtoValues}

\* an upgrade request arrives
WsConnect ==
    \E c \in 1..MaxClients : \E origin \in Origins : \E protocols \in ProtoHeaders :
        ServeHTTP(c, [origin |-> origin, protocols |-> protocols])

\* the requests of the clients of the runs that study the sessions
SessionRequests ==
    {[origin |-> "https://panel.example", protocols |-> <<ExpectedProto, WebsocketPassword>>]}

WsConnectSession ==
    \E c \in 1..MaxClients : \E req \in SessionRequests : ServeHTTP(c, req)

SpecAuth == InitAll(WsChildConfigs, 0, 0, 0, WsConfigs, 0) /\ [][WsConnect]_vars

\* the welcome message with the lines of logHistory.getAll()
welcomeMessage(recentLines, ok) ==
    [type |-> "welcome", content |-> 0, recentLines |-> recentLines, ok |-> ok]

\* WsWelcome that sends no history
WsWelcomeNoHistory ==
    /\ sup = "running"
    /\ \E c \in 1..MaxClients :
         /\ wsPc[c] = "welcome"
         /\ \E ok \in BOOLEAN :
              /\ ok => wsConn[c] = "open"
              /\ wsFrames' = [wsFrames EXCEPT ![c] = Append(@, welcomeMessage(<<>>, ok))]
         /\ wsPc' = [wsPc EXCEPT ![c] = "loop"]
    /\ UNCHANGED <<termVars, stdinVars, outVars, sshVars, pipeVars, readerVars, lockVars, wsCfg, wsReq, wsResp, clients, wsConn,
                   wsHeartbeat, wsLeft, wsLastFrame, wsCloseLog, wsLogged, logHistory, appended>>

\* ServeHTTP, part_007:248-251: the welcome frame; the result of wsjson.Write is dropped
WsWelcome ==
    /\ sup = "running"
    /\ \E c \in 1..MaxClients :
         /\ wsPc[c] = "welcome"
         /\ \E ok \in BOOLEAN :
              /\ ok => wsConn[c] = "open"
              /\ wsFrames' = [wsFrames EXCEPT
                                ![c] = Append(@, welcomeMessage(RingGetAll(logHistory), ok))]
         /\ wsPc' = [wsPc EXCEPT ![c] = "loop"]
    /\ UNCHANGED <<termVars, stdinVars, outVars, sshVars, pipeVars, readerVars, lockVars, wsCfg, wsReq, wsResp, clients, wsConn,
                   wsHeartbeat, wsLeft, wsLastFrame, wsCloseLog, wsLogged, logHistory, appended>>

\* the frames a client sends: text that json.Unmarshal rejects, envelopes with a
\* content that ends in "\n" or not, and a binary frame
ClientFrames ==
    {[kind |-> "text", valid |-> FALSE, type |-> "", content |-> "{list", nl |-> FALSE],
     [kind |-> "text", valid |-> TRUE, type |-> "stdin", content |-> "list", nl |-> FALSE],
     [kind |-> "text", valid |-> TRUE, type |-> "stdin", content |-> "list", nl |-> TRUE],
     [kind |-> "text", valid |-> TRUE, type |-> "stdout", content |-> "list", nl |-> FALSE],
     [kind |-> "binary", valid |-> FALSE, type |-> "", content |-> "", nl |-> FALSE]}

\* handleIncoming for a frame that parses: the content, with "\n" added when
\* strings.HasSuffix(content, "\n") is false, written to s.stdin
WsStdinWrite(c, frame) ==
    [fn |-> "handleIncoming", by |-> WsClient(c), cmd |-> frame.content, n |-> 0,
     nl |-> IF frame.nl THEN frame.nl ELSE TRUE, dst |-> "pipe"]

\* handleIncoming that gives up on a text frame it cannot parse
WsTextFrameFatal ==
    /\ sup = "running"
    /\ wsLeft > 0
    /\ wsLeft' = wsLeft - 1
    /\ \E c \in 1..MaxClients : \E frame \in ClientFrames :
         /\ wsPc[c] = "loop" /\ wsConn[c] = "open"
         /\ wsLastFrame' = [c |-> c, kind |-> frame.kind, valid |-> frame.valid,
                            type |-> frame.type, content |-> frame.content, nl |-> frame.nl]
         /\ IF frame.kind = "text" /\ ~frame.valid
            THEN /\ wsLogged' = wsLogged \union {<<"JSON parse error", c>>}
                 /\ wsConn' = [wsConn EXCEPT ![c] = "closedNow"]
                 /\ UNCHANGED stdinLog
            ELSE IF frame.kind = "text"
            THEN /\ stdinLog' = Append(stdinLog, WsStdinWrite(c, frame))
                 /\ UNCHANGED <<wsLogged, wsConn>>
            ELSE UNCHANGED <<stdinLog, wsLogged, wsConn>>
    /\ UNCHANGED <<stdinVars, outVars, sshVars, pipeVars, readerVars, lockVars, wsCfg, wsPc, wsReq, wsResp, clients,
                   wsFrames, wsHeartbeat, wsCloseLog, logHistory, appended>>
    /\ UNCHANGED <<cfg, mainPc, sigLeft, termChan, usr1Chan, timer, timers, killTimers, killCalls,
                   rconLog, child, childCode, copyErr, waitResult, cmdExitChan, sup, exitCode,
                   ctxCancelled, logged>>

\* handleIncoming, one turn of its loop: a frame has been read from connection c
WsTextFrame ==
    /\ sup = "running"
    /\ wsLeft > 0
    /\ wsLeft' = wsLeft - 1
    /\ \E c \in 1..MaxClients : \E frame \in ClientFrames :
         /\ wsPc[c] = "loop" /\ wsConn[c] = "open"
         /\ wsLastFrame' = [c |-> c, kind |-> frame.kind, valid |-> frame.valid,
                            type |-> frame.type, content |-> frame.content, nl |-> frame.nl]
         /\ IF frame.kind = "text" /\ ~frame.valid
            THEN /\ wsLogged' = wsLogged \union {<<"JSON parse error", c>>}
                 /\ UNCHANGED stdinLog
            ELSE IF frame.kind = "text"
            THEN /\ stdinLog' = Append(stdinLog, WsStdinWrite(c, frame))
                 /\ UNCHANGED wsLogged
            ELSE UNCHANGED <<stdinLog, wsLogged>>
    /\ UNCHANGED <<stdinVars, outVars, sshVars, pipeVars, readerVars, lockVars, wsCfg, wsPc, wsReq, wsResp, clients, wsConn,
                   wsFrames, wsHeartbeat, wsCloseLog, logHistory, appended>>
    /\ UNCHANGED <<cfg, mainPc, sigLeft, termChan, usr1Chan, timer, timers, killTimers, killCalls,
                   rconLog, child, childCode, copyErr, waitResult, cmdExitChan, sup, exitCode,
                   ctxCancelled, logged>>

\* the peer closes the connection, or the network breaks it
WsConnBreaks ==
    /\ sup = "running"
    /\ \E c \in 1..MaxClients :
         /\ wsPc[c] \in {"welcome", "loop"}
         /\ wsConn[c] = "open"
         /\ wsConn' = [wsConn EXCEPT ![c] = "peerGone"]
    /\ UNCHANGED <<termVars, stdinVars, outVars, sshVars, pipeVars, readerVars, lockVars, wsCfg, wsPc, wsReq, wsResp, clients,
                   wsFrames, wsHeartbeat, wsLeft, wsLastFrame, wsCloseLog, wsLogged, logHistory, appended>>

\* the close codes of coder/websocket that the code names, one it does not name,
\* and the value of websocket.CloseStatus(err) for an error that is no close frame
StatusNormalClosure == 1000
StatusGoingAway == 1001
StatusInternalError == 1011
NoCloseStatus == -1

\* Go's a | b on non-negative integers
RECURSIVE BitOr(_, _)
BitOr(a, b) ==
    IF a = 0 THEN b
    ELSE IF b = 0 THEN a
    ELSE (IF a % 2 = 1 \/ b % 2 = 1 THEN 1 ELSE 0) + 2 * BitOr(a \div 2, b \div 2)

\* websocket.CloseStatus(err) of the error c.Reader returns: the code of the
\* peer's close frame when the peer closed the connection (or -1 when it went
\* away without one); -1 when the server itself closed the connection
CloseStatuses(c) ==
    IF wsConn[c] = "peerGone"
    THEN {StatusNormalClosure, StatusGoingAway, StatusInternalError, NoCloseStatus}
    ELSE {NoCloseStatus}

\* the switch of ServeHTTP on closeStatus, part_007:259-275: its one case is the
\* expression StatusNormalClosure | StatusGoingAway
CloseLog(closeStatus) ==
    [level |-> IF closeStatus = BitOr(StatusNormalClosure, StatusGoingAway)
               THEN "info" ELSE "error",
     code |-> closeStatus]

\* another goroutine may be using the map s.clients right now: the output
\* goroutine in broadcast, or the handler of another connection registering or
\* deleting itself
MapInUseBesides(c) ==
    \/ /\ cfg.websocketConsole /\ child = "running" /\ outLeft > 0
       /\ \E s \in Streams : ~copyErr[s]
    \/ \E d \in 1..MaxClients \ {c} :
         wsPc[d] = "none" \/ (wsPc[d] = "loop" /\ wsConn[d] # "open")

\* the handler of connection c returns without deleting its session id
WsReadErrorKeepsClient(c) ==
    /\ sup = "running"
    /\ wsPc[c] = "loop"
    /\ wsConn[c] # "open"
    /\ wsPc' = [wsPc EXCEPT ![c] = "returned"]
    /\ wsLogged' = wsLogged \union {<<"closing websocket session", c>>}
    /\ wsHeartbeat' = [wsHeartbeat EXCEPT ![c] = IF @ = "running" THEN "done" ELSE @]
    /\ \E closeStatus \in CloseStatuses(c) :
         wsCloseLog' = [wsCloseLog EXCEPT ![c] = CloseLog(closeStatus)]
    /\ UNCHANGED <<termVars, clients>>
    /\ UNCHANGED <<stdinVars, outVars, sshVars, pipeVars, readerVars, lockVars, wsCfg, wsReq, wsResp, wsConn, wsFrames, wsLeft,
                   wsLastFrame, logHistory, appended>>

\* ServeHTTP, part_007:253-277: c.Reader fails on the closed or broken connection,
\* handleIncoming returns the error, the handler deletes its session id from
\* s.clients, without s.mu, and returns (cancel and CloseNow are deferred).
\* When another goroutine uses the map at that moment the Go runtime may end the
\* program with "fatal error: concurrent map writes".
WsReadErrorOf(c) ==
    /\ sup = "running"
    /\ wsPc[c] = "loop"
    /\ wsConn[c] # "open"
    /\ \/ /\ clients' = clients \ {c}
          /\ wsPc' = [wsPc EXCEPT ![c] = "returned"]
          /\ wsLogged' = wsLogged \union {<<"closing websocket session", c>>}
          /\ wsHeartbeat' = [wsHeartbeat EXCEPT ![c] = IF @ = "running" THEN "done" ELSE @]
          /\ \E closeStatus \in CloseStatuses(c) :
               wsCloseLog' = [wsCloseLog EXCEPT ![c] = CloseLog(closeStatus)]
          /\ UNCHANGED termVars
       \/ /\ MapInUseBesides(c)
          /\ sup' = "crashed"
          /\ exitCode' = 2
          /\ UNCHANGED <<clients, wsPc, wsLogged, wsHeartbeat, wsCloseLog>>
          /\ UNCHANGED <<cfg, mainPc, sigLeft, termChan, usr1Chan, timer, timers, killTimers,
                         killCalls, stdinLog, rconLog, child, childCode, copyErr, waitResult,
                         cmdExitChan, ctxCancelled, logged>>
    /\ UNCHANGED <<stdinVars, outVars, sshVars, pipeVars, readerVars, lockVars, wsCfg, wsReq, wsResp, wsConn, wsFrames, wsLeft,
                   wsLastFrame, logHistory, appended>>

WsReadError == \E c \in 1..MaxClients : WsReadErrorOf(c)

\* heartbeatRoutine whose failed ping leaves the connection open
WsPingNoClose ==
    /\ sup = "running"
    /\ \E c \in 1..MaxClients :
         /\ wsHeartbeat[c] = "running"
         /\ \/ /\ wsConn[c] = "open"
               /\ wsLogged' = wsLogged \union {<<"pong received", c>>}
               /\ UNCHANGED <<wsConn, wsHeartbeat>>
            \/ /\ wsLogged' = wsLogged \union {<<"ping failed", c>>}
               /\ wsHeartbeat' = [wsHeartbeat EXCEPT ![c] = "failed"]
               /\ UNCHANGED wsConn
    /\ UNCHANGED <<termVars, stdinVars, outVars, sshVars, pipeVars, readerVars, lockVars, wsCfg, wsPc, wsReq, wsResp, clients,
                   wsFrames, wsLeft, wsLastFrame, wsCloseLog, logHistory, appended>>

\* heartbeatRoutine, one tick: c.Ping is answered in time, or it fails (no pong
\* within 5 s, or the connection is closed) and the routine logs it, calls
\* c.CloseNow() and returns
WsPing ==
    /\ sup = "running"
    /\ \E c \in 1..MaxClients :
         /\ wsHeartbeat[c] = "running"
         /\ \/ /\ wsConn[c] = "open"
               /\ wsLogged' = wsLogged \union {<<"pong received", c>>}
               /\ UNCHANGED <<wsConn, wsHeartbeat>>
            \/ /\ wsLogged' = wsLogged \union {<<"ping failed", c>>}
               /\ wsHeartbeat' = [wsHeartbeat EXCEPT ![c] = "failed"]
               /\ wsConn' = [wsConn EXCEPT ![c] = IF @ = "open" THEN "closedNow" ELSE @]
    /\ UNCHANGED <<termVars, stdinVars, outVars, sshVars, pipeVars, readerVars, lockVars, wsCfg, wsPc, wsReq, wsResp, clients,
                   wsFrames, wsLeft, wsLastFrame, wsCloseLog, logHistory, appended>>

\* the configurations of the runs that study the WebSocket sessions
WsSessionConfigs == {wc \in WsConfigs : wc.trustedOrigins # <<>> /\ ~wc.disableOriginCheck}

\* the runs that study the ring of recent lines: output only, no client
NextRing ==
    \/ ChildOutput
    \/ ChildOutputLost

SpecRing == InitAll(WsChildConfigs, 0, 0, MaxWsOutputs, WsSessionConfigs, 0) /\ [][NextRing]_vars

\* the runs that study the outbound side: connections and the child's output
NextWsOut ==
    \/ WsConnectSession
    \/ WsWelcome
    \/ WsConnBreaks
    \/ WsReadError
    \/ ChildOutput
    \/ ChildOutputLost

SpecWsOut == InitAll(WsChildConfigs, 0, 0, MaxOutputs, WsSessionConfigs, 0) /\ [][NextWsOut]_vars

\* the runs that study the inbound side: connections, their frames and heartbeats
NextWsIn ==
    \/ WsConnectSession
    \/ WsWelcome
    \/ WsTextFrame
    \/ WsConnBreaks
    \/ WsReadError
    \/ WsPing

SpecWsIn == InitAll(WsChildConfigs, 0, 0, 0, WsSessionConfigs, MaxFrames) /\ [][NextWsIn]_vars

\* the scheduler lets every handler run on: a handler about to write the welcome
\* writes it (or fails to), and a handler whose read has failed leaves its loop
SpecWsInFair ==
    /\ SpecWsIn
    /\ WF_vars(WsWelcome)
    /\ \A c \in 1..MaxClients : WF_vars(WsReadErrorOf(c))

(***************************************************************************)
(* The SSH console server (handleSession).                                 *)
(***************************************************************************)
\* handleSession, up to its input loop: the session is registered
SshHandleSession ==
    /\ sup = "running"
    /\ cfg.remoteConsole
    /\ \E k \in 1..MaxSessions :
         /\ sshPc[k] = "none"
         /\ sshPc' = [sshPc EXCEPT ![k] = "loop"]
         /\ sshConn' = [sshConn EXCEPT ![k] = "open"]
         /\ remoteSessions' = remoteSessions \union {k}
    /\ UNCHANGED <<termVars, stdinVars, outVars, wsVars, sshFrames, hkVars, pipeVars, readerVars, lockVars>>

\* the network breaks the connection of a session
SshConnBreaks ==
    /\ sup = "running"
    /\ \E k \in 1..MaxSessions :
         /\ sshPc[k] = "loop"
         /\ sshConn[k] = "open"
         /\ sshConn' = [sshConn EXCEPT ![k] = "gone"]
    /\ UNCHANGED <<termVars, stdinVars, outVars, wsVars, remoteSessions, sshPc, sshFrames, hkVars, pipeVars, readerVars, lockVars>>

\* why handleSession leaves its input loop: the reader goroutine closed the input
\* channel after io.EOF ("eof") or after another read error ("readError"), or
\* session.Context() is done ("ctxDone")
SshExitCauses == {"eof", "readError", "ctxDone"}

\* handleSession that returns without UnregisterSession when the context is done
SshSessionEndsLeakOnCancel ==
    /\ sup = "running"
    /\ \E k \in 1..MaxSessions : \E cause \in SshExitCauses :
         /\ sshPc[k] = "loop"
         /\ cause = "eof" => sshConn[k] = "open"
         /\ sshPc' = [sshPc EXCEPT ![k] = "returned"]
         /\ sshConn' = [sshConn EXCEPT ![k] = cause]
         /\ remoteSessions' = IF cause = "ctxDone" THEN remoteSessions
                              ELSE remoteSessions \ {k}
    /\ UNCHANGED <<termVars, stdinVars, outVars, wsVars, sshFrames, hkVars, pipeVars, readerVars, lockVars>>

\* handleSession leaves its input loop, by either case of its select, and
\* unregisters the session: both breaks lead to console.UnregisterSession
SshSessionEnds ==
    /\ sup = "running"
    /\ \E k \in 1..MaxSessions : \E cause \in SshExitCauses :
         /\ sshPc[k] = "loop"
         /\ cause = "eof" => sshConn[k] = "open"
         /\ sshPc' = [sshPc EXCEPT ![k] = "returned"]
         /\ sshConn' = [sshConn EXCEPT ![k] = cause]
         /\ remoteSessions' = remoteSessions \ {k}
    /\ UNCHANGED <<termVars, stdinVars, outVars, wsVars, sshFrames, hkVars, pipeVars, readerVars, lockVars>>

(***************************************************************************)
(* The named pipe (handleNamedPipe) and main's use of it.                  *)
(***************************************************************************)
\* the frame of the actions of the named pipe and of main around it
PipeFrame ==
    /\ UNCHANGED <<stdinVars, outVars, wsVars, sshVars, readerVars, lockVars>>
    /\ UNCHANGED <<cfg, sigLeft, termChan, usr1Chan, timer, timers, killTimers, killCalls,
                   rconLog, child, childCode, copyErr, waitResult>>

\* the defer of the goroutine: os.Remove(path)
RemoveFifo == IF fifo = "absent" THEN fifo ELSE "absent"

\* main.go:156-161 with handleNamedPipe, named_pipe_linux.go:11-27: os.Stat, then
\* Mkfifo when nothing is at the path; an error is returned when Stat or Mkfifo
\* fails or when the path holds no FIFO, and main gives it to logger.Fatal, which
\* ends the process with os.Exit(1). Otherwise the goroutine is started.
HandleNamedPipe ==
    /\ sup = "running"
    /\ mainPc = "pipe"
    /\ \E statFails \in BOOLEAN : \E mkfifoFails \in BOOLEAN :
         LET err == \/ statFails
                    \/ fifo = "absent" /\ mkfifoFails
                    \/ fifo = "file"
         IN  IF err
             THEN /\ logged' = logged \union {"Failed to setup named pipe"}
                  /\ sup' = "exited"
                  /\ exitCode' = 1
                  /\ UNCHANGED <<mainPc, fifo, pipePc>>
             ELSE /\ fifo' = "fifo"
                  /\ pipePc' = "top"
                  /\ mainPc' = "loop"
                  /\ UNCHANGED <<logged, sup, exitCode>>
    /\ UNCHANGED <<pipeWriter, pipeCycle, pipeBuf, pipeSent, pipeLeft, errorChan, pipeErrs,
                   stdinLog, cmdExitChan, ctxCancelled>>
    /\ PipeFrame

\* the select of the goroutine: it returns when ctx is done (the deferred
\* os.Remove runs), and goes on to os.Open otherwise
PipeSelect ==
    /\ sup = "running"
    /\ pipePc = "top"
    /\ IF ctxCancelled
       THEN /\ pipePc' = "stopped"
            /\ fifo' = RemoveFifo
       ELSE /\ pipePc' = "opening"
            /\ UNCHANGED fifo
    /\ UNCHANGED <<pipeWriter, pipeCycle, pipeBuf, pipeSent, pipeLeft, errorChan, pipeErrs,
                   stdinLog, cmdExitChan, ctxCancelled, mainPc, logged, sup, exitCode>>
    /\ PipeFrame

\* os.Open(path) returns: with the file once a writer has the FIFO open, or with
\* an error, which is sent to the error channel before the goroutine returns
PipeOpen ==
    /\ sup = "running"
    /\ pipePc = "opening"
    /\ \/ /\ pipeWriter = "open"
          /\ pipePc' = "copying"
          /\ UNCHANGED <<fifo, errorChan, pipeErrs>>
       \/ /\ errorChan = <<>>
          /\ pipeErrs < MaxPipeErrs
          /\ errorChan' = <<"failed to open named fifo">>
          /\ pipeErrs' = pipeErrs + 1
          /\ pipePc' = "stopped"
          /\ fifo' = RemoveFifo
    /\ UNCHANGED <<pipeWriter, pipeCycle, pipeBuf, pipeSent, pipeLeft,
                   stdinLog, cmdExitChan, ctxCancelled, mainPc, logged, sup, exitCode>>
    /\ PipeFrame

\* a chunk the named-pipe loop writes to main's stdin: the n-th chunk written to
\* the FIFO
PipeWrite(n) ==
    [fn |-> "handleNamedPipe", by |-> NamedPipe, cmd |-> "input", n |-> n, nl |-> TRUE,
     dst |-> StdinTarget(cfg)]

\* io.Copy(stdin, f) that ends the goroutine at EOF
PipeCopyEofReturns ==
    /\ sup = "running"
    /\ pipePc = "copying"
    /\ pipeBuf = <<>> /\ pipeWriter = "none"
    /\ pipePc' = "stopped"
    /\ fifo' = RemoveFifo
    /\ UNCHANGED <<pipeWriter, pipeCycle, pipeBuf, pipeSent, pipeLeft, errorChan, pipeErrs,
                   stdinLog, cmdExitChan, ctxCancelled, mainPc, logged, sup, exitCode>>
    /\ PipeFrame

\* io.Copy(stdin, f) returns nil at EOF, when every writer has closed the FIFO and
\* nothing is left to read; f is closed and the loop goes back to its select
PipeCopyEof ==
    /\ sup = "running"
    /\ pipePc = "copying"
    /\ pipeBuf = <<>> /\ pipeWriter = "none"
    /\ pipePc' = "top"
    /\ UNCHANGED <<fifo, pipeWriter, pipeCycle, pipeBuf, pipeSent, pipeLeft, errorChan, pipeErrs,
                   stdinLog, cmdExitChan, ctxCancelled, mainPc, logged, sup, exitCode>>
    /\ PipeFrame

\* io.Copy(stdin, f), one buffer: the next chunk is read and written to stdin; or
\* the read or the write fails, io.Copy returns the error, the error is sent to
\* the error channel, f is closed (what was not read is lost) and the loop goes
\* back to its select
PipeCopy ==
    /\ sup = "running"
    /\ pipePc = "copying"
    /\ \/ /\ pipeBuf # <<>>
          /\ stdinLog' = Append(stdinLog, PipeWrite(Head(pipeBuf)))
          /\ pipeBuf' = Tail(pipeBuf)
          /\ UNCHANGED <<pipePc, errorChan, pipeErrs>>
       \/ /\ errorChan = <<>>
          /\ pipeErrs < MaxPipeErrs
          /\ errorChan' = <<"unexpected error reading named pipe">>
          /\ pipeErrs' = pipeErrs + 1
          /\ pipeBuf' = <<>>
          /\ pipePc' = "top"
          /\ UNCHANGED stdinLog
    /\ UNCHANGED <<fifo, pipeWriter, pipeCycle, pipeSent, pipeLeft,
                   cmdExitChan, ctxCancelled, mainPc, logged, sup, exitCode>>
    /\ PipeFrame

\* an outside process opens the FIFO for writing
PipeWriterOpens ==
    /\ sup = "running"
    /\ fifo = "fifo"
    /\ pipePc \in {"top", "opening", "copying"}
    /\ pipeWriter = "none"
    /\ pipeCycle < MaxPipeCycles
    /\ pipeWriter' = "open"
    /\ pipeCycle' = pipeCycle + 1
    /\ UNCHANGED <<fifo, pipePc, pipeBuf, pipeSent, pipeLeft, errorChan, pipeErrs,
                   stdinLog, cmdExitChan, ctxCancelled, mainPc, logged, sup, exitCode>>
    /\ PipeFrame

\* the writer writes a chunk: its open has returned, so the loop has the FIFO open
PipeWriterWrites ==
    /\ sup = "running"
    /\ pipeWriter = "open"
    /\ pipePc = "copying"
    /\ pipeLeft > 0
    /\ pipeLeft' = pipeLeft - 1
    /\ pipeSent' = Append(pipeSent, pipeCycle)
    /\ pipeBuf' = Append(pipeBuf, Len(pipeSent) + 1)
    /\ UNCHANGED <<fifo, pipePc, pipeWriter, pipeCycle, errorChan, pipeErrs,
                   stdinLog, cmdExitChan, ctxCancelled, mainPc, logged, sup, exitCode>>
    /\ PipeFrame

\* the writer closes the FIFO
PipeWriterCloses ==
    /\ sup = "running"
    /\ pipeWriter = "open"
    /\ pipeWriter' = "none"
    /\ UNCHANGED <<fifo, pipePc, pipeCycle, pipeBuf, pipeSent, pipeLeft, errorChan, pipeErrs,
                   stdinLog, cmdExitChan, ctxCancelled, mainPc, logged, sup, exitCode>>
    /\ PipeFrame

\* main that kills the child when the named pipe reports an error
MainNamedPipeErrKillsChild ==
    /\ sup = "running"
    /\ mainPc = "loop"
    /\ errorChan # <<>>
    /\ errorChan' = <<>>
    /\ logged' = logged \union {"Error during named pipe handling"}
    /\ killCalls' = killCalls + 1
    /\ child' = IF child = "running" THEN "exited" ELSE child
    /\ childCode' = IF child = "running" THEN -1 ELSE childCode
    /\ UNCHANGED <<fifo, pipePc, pipeWriter, pipeCycle, pipeBuf, pipeSent, pipeLeft, pipeErrs,
                   stdinLog, cmdExitChan, ctxCancelled, mainPc, sup, exitCode>>
    /\ UNCHANGED <<stdinVars, outVars, wsVars, sshVars, readerVars, lockVars>>
    /\ UNCHANGED <<cfg, sigLeft, termChan, usr1Chan, timer, timers, killTimers,
                   rconLog, copyErr, waitResult>>

\* main.go:212-213: main takes an error of the named pipe from errorChan and logs it
MainNamedPipeErr ==
    /\ sup = "running"
    /\ mainPc = "loop"
    /\ errorChan # <<>>
    /\ errorChan' = <<>>
    /\ logged' = logged \union {"Error during named pipe handling"}
    /\ UNCHANGED <<fifo, pipePc, pipeWriter, pipeCycle, pipeBuf, pipeSent, pipeLeft, pipeErrs,
                   stdinLog, cmdExitChan, ctxCancelled, mainPc, sup, exitCode>>
    /\ PipeFrame

\* main.go:215-217: main takes the exit code, calls cancel() and logs "Done"
MainCancel ==
    /\ sup = "running"
    /\ mainPc = "loop"
    /\ cmdExitChan # <<>>
    /\ ctxCancelled' = TRUE
    /\ exitCode' = Head(cmdExitChan)
    /\ cmdExitChan' = <<>>
    /\ mainPc' = "exiting"
    /\ logged' = logged \union {"Done"}
    /\ UNCHANGED <<pipeVars, readerVars, lockVars, stdinLog, sup>>
    /\ PipeFrame

\* main.go:218: os.Exit(exitCode) ends the process and every goroutine with it
MainOsExit ==
    /\ sup = "running"
    /\ mainPc = "exiting"
    /\ sup' = "exited"
    /\ UNCHANGED <<pipeVars, readerVars, lockVars, stdinLog, cmdExitChan, ctxCancelled, mainPc, logged, exitCode>>
    /\ PipeFrame

NextPipe ==
    \/ HandleNamedPipe
    \/ PipeSelect
    \/ PipeOpen
    \/ PipeCopy
    \/ PipeCopyEof
    \/ PipeWriterOpens
    \/ PipeWriterWrites
    \/ PipeWriterCloses
    \/ MainNamedPipeErr
    \/ ChildExits
    \/ WaitReturns
    \/ MainCancel
    \/ MainOsExit

\* main is about to call handleNamedPipe
InitPipe ==
    /\ InitMain(PipeConfigs, 0, 0, 0)
    /\ mainPc = "pipe"
    /\ InitWebsocket({DefaultWsConfig}, 0)
    /\ InitRemoteShell
    /\ InitNamedPipe({"absent", "fifo", "file"}, MaxPipeChunks)

SpecPipe == InitPipe /\ [][NextPipe]_vars

\* the scheduler lets the goroutine of the named pipe and main run on
SpecPipeFair ==
    /\ SpecPipe
    /\ WF_vars(PipeSelect) /\ WF_vars(PipeOpen /\ pipePc' = "copying")
    /\ WF_vars(PipeCopy /\ pipePc' = "copying") /\ WF_vars(PipeCopyEof)
    /\ WF_vars(MainNamedPipeErr) /\ WF_vars(MainCancel) /\ WF_vars(MainOsExit)

(***************************************************************************)
(* The host keys of the SSH server (ensureHostKeys, cleanupOldHostKey).    *)
(***************************************************************************)
\* pickHostKeyPath: the hidden file when it exists, else the old file when it
\* exists, else the hidden file
pickHostKeyPath(files) ==
    IF files.current.exists THEN "current"
    ELSE IF files.legacy.exists THEN "legacy"
    ELSE "current"

\* populateKeys: the EC key, then the RSA key, is generated when missing;
\* genFails names the key whose generation fails ("none": neither)
populateKeys(keys, genFails) ==
    IF keys.ec = "" /\ genFails = "ec"
    THEN [keys |-> keys, didAdd |-> FALSE, err |-> TRUE]
    ELSE LET withEc == IF keys.ec = "" THEN [keys EXCEPT !.ec = "ecNew"] ELSE keys
             addedEc == keys.ec = ""
         IN  IF withEc.rsa = "" /\ genFails = "rsa"
             THEN [keys |-> withEc, didAdd |-> addedEc, err |-> TRUE]
             ELSE [keys |-> IF withEc.rsa = "" THEN [withEc EXCEPT !.rsa = "rsaNew"]
                            ELSE withEc,
                   didAdd |-> addedEc \/ withEc.rsa = "",
                   err |-> FALSE]

\* the outcomes of writeKeys: os.OpenFile fails; the file is created and
\* truncated but no block can be written; the EC block is written and the RSA
\* block is not; both blocks are written. pem.Encode's error is dropped.
WriteOutcomes == {"openFails", "nothingWritten", "ecWritten", "ok"}

\* writeKeys(hostKeyPath, keys): the file afterwards
writeKeys(file, keys, outcome) ==
    IF outcome = "openFails" THEN file
    ELSE IF outcome = "nothingWritten" THEN KeyFile(NoKeys)
    ELSE IF outcome = "ecWritten" THEN KeyFile([rsa |-> "", ec |-> keys.ec])
    ELSE KeyFile(keys)

\* ensureHostKeys: the keys are read from the picked file, or generated when no
\* file exists; they are written to the hidden file when the picked file is the
\* old one or a key was added. The result of writeKeys is dropped.
EnsureHostKeys ==
    /\ sup = "running"
    /\ cfg.remoteConsole
    /\ hkPc = "start"
    /\ LET path == pickHostKeyPath(hkFiles)
           fileChanged == path # "current"
           picked == hkFiles[path]
       IN  \E readFails \in BOOLEAN : \E genFails \in {"none", "ec", "rsa"} :
           \E outcome \in WriteOutcomes :
             IF picked.exists /\ readFails
             THEN /\ hkPc' = "failed"
                  /\ UNCHANGED <<hkFiles, hkKeys>>
             ELSE LET read == IF picked.exists THEN [rsa |-> picked.rsa, ec |-> picked.ec]
                              ELSE NoKeys
                      pop == populateKeys(read, genFails)
                  IN  /\ hkKeys' = pop.keys
                      /\ hkPc' = IF pop.err THEN "failed" ELSE "ensured"
                      /\ hkFiles' = IF (fileChanged \/ pop.didAdd) /\ ~pop.err
                                    THEN [hkFiles EXCEPT
                                            !.current = writeKeys(@, pop.keys, outcome)]
                                    ELSE hkFiles
    /\ UNCHANGED <<termVars, stdinVars, outVars, wsVars, remoteSessions, sshPc, sshConn,
                   sshFrames, pipeVars, readerVars, lockVars, hkStart>>

\* cleanupOldHostKey, called once ensureHostKeys has returned without error: the
\* old file is removed when it exists; a failure is logged as a warning
CleanupOldHostKey ==
    /\ sup = "running"
    /\ hkPc = "ensured"
    /\ hkPc' = "serving"
    /\ \E removeOk \in BOOLEAN :
         hkFiles' = IF hkFiles.legacy.exists /\ removeOk
                    THEN [hkFiles EXCEPT !.legacy = Absent]
                    ELSE hkFiles
    /\ UNCHANGED <<termVars, stdinVars, outVars, wsVars, remoteSessions, sshPc, sshConn,
                   sshFrames, pipeVars, readerVars, lockVars, hkStart, hkKeys>>

NextHostKeys ==
    \/ EnsureHostKeys
    \/ CleanupOldHostKey

InitKeys ==
    /\ InitSupervisor(SshChildConfigs, 0, 0, 0)
    /\ InitWebsocket({DefaultWsConfig}, 0)
    /\ InitSessions
    /\ InitReader(0)
    /\ InitLocks(0, 0)
    /\ InitHostKeys(KeyFileStates)
    /\ InitNamedPipe({"absent"}, 0)

SpecHostKeys == InitKeys /\ [][NextHostKeys]_vars

NextSsh ==
    \/ SshHandleSession
    \/ SshConnBreaks
    \/ SshSessionEnds
    \/ ChildOutput
    \/ ChildOutputLost
    \/ ConsoleOutRoutine

SpecSsh == InitState(SshChildConfigs, 0, 0, MaxSshOutputs) /\ [][NextSsh]_vars

(***************************************************************************)
(* The termination states of the design, read off the controller's state.  *)
(***************************************************************************)
\* stop commands issued: accepted by rcon-cli, or written to the console
StopCount(sl, rl) ==
    Cardinality({i \in 1..Len(rl) : rl[i].fn = "stopWithRconCli" /\ rl[i].ok})
    + Cardinality({i \in 1..Len(sl) : sl[i].fn = "stopViaConsole"})

\* announcements sent through sendCommand
AnnounceCount(sl, rl) ==
    Cardinality({i \in 1..Len(rl) : rl[i].fn = "announceStop" /\ rl[i].cmd = "say"})
    + Cardinality({i \in 1..Len(sl) : sl[i].fn = "announceStop" /\ sl[i].cmd = "say"})

\* commands sent by goroutine g
CommandsBy(g, sl, rl) ==
    Cardinality({k \in 1..Len(rl) : rl[k].by = g})
    + Cardinality({k \in 1..Len(sl) : sl[k].by = g})

TermState(sl, rl, t, ts, kts) ==
    IF \E j \in 1..Len(kts) : kts[j] = "fired" THEN "Killed"
    ELSE IF StopCount(sl, rl) > 0 THEN "Stopping"
    ELSE IF t # NoTimer /\ ts[t] = "armed" THEN "AnnounceDelayPending"
    ELSE "Idle"

TerminationState == TermState(stdinLog, rconLog, timer, timers, killTimers)

SigtermHandled == termChan /\ ~termChan'
Sigusr1Handled == usr1Chan /\ ~usr1Chan'
AnnounceTimerFired(i) == timers[i] = "armed" /\ timers'[i] = "fired"
StopIssuedNow == StopCount(stdinLog', rconLog') = StopCount(stdinLog, rconLog) + 1
NoStopNow == StopCount(stdinLog', rconLog') = StopCount(stdinLog, rconLog)
NoAnnounceNow == AnnounceCount(stdinLog', rconLog') = AnnounceCount(stdinLog, rconLog)

(***************************************************************************)
(* Claims.                                                                 *)
(***************************************************************************)

\* C1: a SIGTERM handled in Idle with an announce delay > 0 sends the announcement,
\* arms a delay timer and issues no stop command, and with such a delay a stop
\* command is only ever issued by a delay timer's expiry or by the handling of a
\* SIGUSR1; with an announce delay of 0 the SIGTERM issues the stop command in the
\* same step, with no announcement and no timer.
C1_SigtermAnnouncesThenDelays ==
    [][ /\ (SigtermHandled /\ TerminationState = "Idle" /\ cfg.announceDelay > 0)
            => /\ AnnounceCount(stdinLog', rconLog') = AnnounceCount(stdinLog, rconLog) + 1
               /\ timers' = Append(timers, "armed")
               /\ timer' = Len(timers')
               /\ NoStopNow
               /\ killTimers' = killTimers
        /\ (SigtermHandled /\ TerminationState = "Idle" /\ cfg.announceDelay = 0)
            => /\ StopIssuedNow
               /\ NoAnnounceNow
               /\ timers' = timers /\ timer' = timer
        /\ (cfg.announceDelay > 0 /\ ~NoStopNow)
            => \/ Sigusr1Handled
               \/ \E i \in 1..Len(timers) : AnnounceTimerFired(i)
      ]_vars

C1_Witness ==
    /\ cfg.announceDelay > 0
    /\ AnnounceCount(stdinLog, rconLog) = 1
    /\ timer # NoTimer /\ timers[timer] = "armed"
    /\ StopCount(stdinLog, rconLog) = 0
    /\ "Sleeping before server stop" \in logged

\* C2: a SIGUSR1 handled while the delay timer held by main is armed stops that
\* timer and issues the stop command in the same step (from the main loop), and a
\* stopped timer stays stopped and its callback never sends any command.
C2_Sigusr1CancelsPendingDelay ==
    [][ /\ (Sigusr1Handled /\ timer # NoTimer /\ timers[timer] = "armed")
            => /\ timers'[timer] = "stopped"
               /\ StopIssuedNow
               /\ CommandsBy(MainLoop, stdinLog', rconLog') > CommandsBy(MainLoop, stdinLog, rconLog)
        /\ \A i \in 1..Len(timers) :
              timers[i] = "stopped"
                => /\ timers'[i] = "stopped"
                   /\ CommandsBy(TimerCallback(i), stdinLog', rconLog') = 0
      ]_vars

C2_Witness ==
    /\ timer # NoTimer /\ timers[timer] = "stopped"
    /\ StopCount(stdinLog, rconLog) = 1
    /\ "SIGUSR1 caught, bypassing running StopServerAnnounceDelay" \in logged

C4_Sigusr1InIdleStops ==
    [][ (Sigusr1Handled /\ TerminationState = "Idle" /\ timer = NoTimer)
          => /\ StopIssuedNow
             /\ NoAnnounceNow
             /\ timers' = timers /\ timer' = NoTimer
             /\ TermState(stdinLog', rconLog', timer', timers', killTimers') = "Stopping"
      ]_vars

C4_Witness ==
    /\ timers = <<>>
    /\ AnnounceCount(stdinLog, rconLog) = 0
    /\ StopCount(stdinLog, rconLog) = 1
    /\ "SIGUSR1 caught, gracefully stopping server... (without StopServerAnnounceDelay)"
          \in logged

\* C5: with a stop-duration of 0 no kill timer is ever armed and Kill is never
\* called; with a stop-duration > 0 at most one kill timer is armed and Kill is
\* called at most once, whatever signals arrive.
C5_KillTimerAtMostOnce ==
    /\ cfg.stopDuration = 0 => (killTimers = <<>> /\ killCalls = 0)
    /\ cfg.stopDuration # 0 => (Len(killTimers) <= 1 /\ killCalls <= 1)

\* C6: the expiry of an armed (never cancelled) announce-delay timer issues the
\* stop command from its callback, arms a kill timer exactly when a stop-duration
\* is configured, and takes the controller from AnnounceDelayPending to Stopping.
C6_DelayExpiryStops ==
    [][ \A i \in 1..Len(timers) :
          AnnounceTimerFired(i)
            => /\ StopIssuedNow
               /\ CommandsBy(TimerCallback(i), stdinLog', rconLog') > CommandsBy(TimerCallback(i), stdinLog, rconLog)
               /\ IF cfg.stopDuration # 0
                  THEN killTimers' = Append(killTimers, "armed")
                  ELSE killTimers' = killTimers
               /\ TerminationState = "AnnounceDelayPending"
                    => TermState(stdinLog', rconLog', timer', timers', killTimers') = "Stopping"
      ]_vars

C6_Witness ==
    /\ cfg.stopDuration # 0
    /\ timers = <<"fired">>
    /\ CommandsBy(TimerCallback(1), stdinLog, rconLog) > 0
    /\ killTimers = <<"armed">>
    /\ TerminationState = "Stopping"

\* C7: once the child has exited the supervisor exits with the child's exit code
\* and with the shared context cancelled: an exited supervisor has done both, and
\* when cmd.Wait has returned for an exited child the exit code is on its way to
\* the main loop.
C7_ChildExitEndsSupervisor ==
    /\ sup = "exited" => (ctxCancelled /\ exitCode = childCode)
    /\ (child = "exited" /\ waitResult # "pending" /\ sup = "running")
          => cmdExitChan = <<childCode>>

\* C8: when cmd.Wait ends with an error that is no exit status, the supervisor
\* exits with code 1.
C8_UnexpectedWaitErrorExitsOne ==
    waitResult = "other"
      => \/ cmdExitChan = <<1>>
         \/ (sup = "exited" /\ exitCode = 1)

\* C9: every write to the child's stdin is made by a goroutine that holds the one
\* stdin mutex (Console.stdInLock) while it writes.
C9_AllStdinWritesHoldTheMutex ==
    [][ Len(stdinLog') > Len(stdinLog)
          => stdInLock = stdinLog'[Len(stdinLog')].by ]_vars

\* C10: every chunk the child wrote reached every consumer of its stream whose own
\* write of that chunk did not fail, whatever failed at another consumer, then or
\* earlier.
C10_WriteFailureIsIsolated ==
    \A s \in Streams : \A k \in 1..Len(produced[s]) :
      \A i \in 1..Len(Consumers(cfg)) :
        LET w == Consumers(cfg)[i] IN
        w \notin produced[s][k]
          => \E m \in 1..Len(delivered[s][w]) : delivered[s][w][m] = k

\* the request of connection c has been served
Served(c) == wsPc[c] # "none"

\* the Origin of the request of connection c equals none of the trusted origins
OriginUntrusted(c) ==
    \A i \in DOMAIN wsCfg.trustedOrigins : wsCfg.trustedOrigins[i] # wsReq[c].origin

\* the request of connection c was answered 403 with the origin auth_err body
RejectedForOrigin(c) ==
    /\ wsResp[c] = [status |-> 403, type |-> "auth_err", reason |-> "origin not allowed"]
    /\ wsPc[c] = "rejected"

\* C13: a served upgrade request was answered 403 with {type: auth_err, reason:
\* origin not allowed} exactly when the origin check is enabled and its Origin
\* equals none of the trusted origins; a request so rejected was never upgraded or
\* registered; with the check disabled no request is answered 403.
C13_OriginRejectedIffUntrusted ==
    \A c \in 1..MaxClients :
      Served(c) =>
        /\ RejectedForOrigin(c) <=> (~wsCfg.disableOriginCheck /\ OriginUntrusted(c))
        /\ RejectedForOrigin(c) => (c \notin clients /\ wsConn[c] = "none")
        /\ wsCfg.disableOriginCheck => wsResp[c].status # 403

C13_Witness ==
    \E c, d \in 1..MaxClients :
      /\ wsCfg.trustedOrigins = <<"https://panel.example">>
      /\ ~wsCfg.disableOriginCheck
      /\ wsReq[c].origin = "https://panel.example.evil" /\ RejectedForOrigin(c)
      /\ wsReq[d].origin = "https://panel.example" /\ Served(d) /\ wsResp[d].status # 403

\* the Sec-WebSocket-Protocol values p hold the protocol name followed by the
\* configured secret
SuppliesCorrectToken(p) ==
    \E i \in 1..(Len(p) - 1) : p[i] = ExpectedProto /\ p[i + 1] = WebsocketPassword

\* C14: with authentication enabled, a served request that passed the origin check
\* and does not supply the correct token was answered 401 with an auth_err body
\* and was never upgraded or registered.
C14_BadTokenRejected401 ==
    \A c \in 1..MaxClients :
      ( /\ Served(c)
        /\ ~wsCfg.disableAuth
        /\ ~RejectedForOrigin(c)
        /\ ~SuppliesCorrectToken(wsReq[c].protocols) )
      => /\ wsResp[c] = [status |-> 401, type |-> "auth_err", reason |-> "invalid password"]
         /\ c \notin clients /\ wsConn[c] = "none"

\* consoleOutRoutine wrote a line to session k in this step and the write failed
SshWriteFailedNow(k) ==
    /\ Len(sshFrames'[k]) = Len(sshFrames[k]) + 1
    /\ ~sshFrames'[k][Len(sshFrames'[k])].ok

\* C11: when a line is written to the registered SSH sessions and the write to
\* some of them fails, every other registered session receives the line, the
\* failure is logged, and exactly the failing sessions leave the registry.
C11_FailedSessionIsRemoved ==
    [][ (\E k \in 1..MaxSessions : SshWriteFailedNow(k))
          => /\ \A j \in remoteSessions :
                  ~SshWriteFailedNow(j)
                    => /\ Len(sshFrames'[j]) = Len(sshFrames[j]) + 1
                       /\ sshFrames'[j][Len(sshFrames'[j])].ok
             /\ (logged' \ logged) \ {"Failed to write to stdout"} # {}
             /\ remoteSessions' = {j \in remoteSessions : ~SshWriteFailedNow(j)}
      ]_vars

\* the writers of commands and lines (the relays of raw bytes, io.Copy and the
\* bootstrap file, write whatever they read)
LineWriters ==
    {"announceStop", "stopViaConsole", "handleSession", "handleIncoming", "consoleInRoutine"}

\* C12: every command or line injected into the child's stdin (announcement, stop
\* command, SSH line, WebSocket message, local line of the console) ends with a
\* newline.
C12_InjectedLinesEndWithNewline ==
    \A i \in 1..Len(stdinLog) :
      stdinLog[i].fn \in LineWriters => stdinLog[i].nl

\* the last n elements of a sequence
LastLines(seq, n) == SubSeq(seq, Len(seq) - n + 1, Len(seq))

MinOf(a, b) == IF a <= b THEN a ELSE b

\* C15: reading the ring of capacity C after N lines were appended returns the
\* last min(N, C) appended lines, oldest first.
C15_RingKeepsLastLines ==
    RingGetAll(logHistory)
      = LastLines(appended, MinOf(Len(appended), wsCfg.logBufferSize))

C15_Witness ==
    /\ wsCfg.logBufferSize = 2
    /\ Len(appended) = 3
    /\ RingGetAll(logHistory) = <<appended[2], appended[3]>>

\* the welcome frames among a connection's frames
WelcomeFrames(frames) == {i \in 1..Len(frames) : frames[i].type = "welcome"}

\* the step in which the handler of connection c passes its welcome
WelcomeStep(c) == wsPc[c] = "welcome" /\ wsPc'[c] = "loop"

\* C16: the handler of a registered client writes one welcome frame, whose
\* recentLines are the lines in the ring at that moment, oldest first (the last
\* min(N, capacity) of the N lines appended so far); no other step writes a
\* welcome frame, so a client is sent exactly one.
C16_OneWelcomeWithHistory ==
    [][ \A c \in 1..MaxClients :
          IF WelcomeStep(c)
          THEN /\ WelcomeFrames(wsFrames[c]) = {}
               /\ Len(wsFrames'[c]) = Len(wsFrames[c]) + 1
               /\ SubSeq(wsFrames'[c], 1, Len(wsFrames[c])) = wsFrames[c]
               /\ LET f == wsFrames'[c][Len(wsFrames'[c])] IN
                    /\ f.type = "welcome"
                    /\ f.recentLines
                         = LastLines(appended, MinOf(Len(appended), wsCfg.logBufferSize))
          ELSE WelcomeFrames(wsFrames'[c]) = WelcomeFrames(wsFrames[c])
      ]_vars

C16_Witness ==
    \E c \in 1..MaxClients :
      /\ wsPc[c] = "loop"
      /\ Len(appended) = 2
      /\ \E i \in 1..Len(wsFrames[c]) :
           /\ wsFrames[c][i].type = "welcome" /\ wsFrames[c][i].ok
           /\ Len(wsFrames[c][i].recentLines) = 1
           /\ wsFrames[c][i].recentLines = <<appended[1]>>

\* C17: a connection whose handler has returned after a read error (whatever
\* closed the connection: the peer, the heartbeat, a failed broadcast) is not in
\* the registry.
C17_ReturnedHandlerIsUnregistered ==
    \A c \in 1..MaxClients : wsPc[c] = "returned" => c \notin clients

C17_Witness ==
    \E c, d \in 1..MaxClients :
      /\ wsPc[c] = "returned" /\ wsConn[c] = "peerGone" /\ wsResp[c].status = 101
      /\ c \notin clients
      /\ d \in clients

\* handleIncoming has read, in this step, a text frame of connection c that is
\* no valid JSON
MalformedFrameStep(c) ==
    /\ wsLeft' = wsLeft - 1
    /\ wsLastFrame'.c = c /\ wsLastFrame'.kind = "text" /\ ~wsLastFrame'.valid

\* C18: a text frame that is no valid JSON is logged and dropped: the step that
\* reads it writes nothing to the child's stdin and leaves the connection open,
\* registered and in its read loop, so that its later frames are processed.
C18_MalformedFrameIsDropped ==
    [][ \A c \in 1..MaxClients :
          MalformedFrameStep(c)
            => /\ stdinLog' = stdinLog
               /\ <<"JSON parse error", c>> \in wsLogged'
               /\ wsConn'[c] = "open"
               /\ c \in clients' /\ clients' = clients
               /\ wsPc'[c] = "loop"
      ]_vars

\* after a malformed frame of connection c, a later frame of c was written to stdin
C18_Witness ==
    \E c \in 1..MaxClients :
      /\ <<"JSON parse error", c>> \in wsLogged
      /\ wsLastFrame.c = c /\ wsLastFrame.valid
      /\ wsLeft = 0
      /\ Len(stdinLog) = 1 /\ stdinLog[1].by = WsClient(c)
      /\ wsConn[c] = "open" /\ c \in clients

\* the child has written, in this step, a chunk to stream s
ChunkWritten(s) == Len(produced'[s]) = Len(produced[s]) + 1

\* C19: each chunk the child writes to stdout or stderr is broadcast, in the
\* step that writes it, to every client registered at that time, as a frame
\* whose type is the name of the stream and whose content is the chunk, so that
\* any two registered clients get frames of identical type and content.
C19_ChunkBroadcastToEveryClient ==
    [][ \A s \in Streams :
          ChunkWritten(s)
            => \A c \in clients :
                 /\ Len(wsFrames'[c]) = Len(wsFrames[c]) + 1
                 /\ wsFrames'[c][Len(wsFrames'[c])].type = s
                 /\ wsFrames'[c][Len(wsFrames'[c])].content = NextContent
      ]_vars

\* the heartbeat of connection c has, in this step, had a ping fail
PingFailedStep(c) == wsHeartbeat[c] = "running" /\ wsHeartbeat'[c] = "failed"

LoopEnded(c) == wsPc[c] = "returned"

\* C21: when the read loop of a connection ends, a normal closure (code 1000) is
\* logged at info level and every other close code or error at error level.
C21_NormalClosureInfoElseError ==
    \A c \in 1..MaxClients :
      LoopEnded(c) =>
        wsCloseLog[c].level = (IF wsCloseLog[c].code = 1000 THEN "info" ELSE "error")

\* C22: an SSH session is in the registry for as long as its handler is in its
\* input loop, and is out of it once the handler has returned, whichever way the
\* loop ended (input channel closed after EOF or a read error, context done).
C22_RegistrationBracketsTheLoop ==
    \A k \in 1..MaxSessions :
      /\ sshPc[k] = "loop" => k \in remoteSessions
      /\ sshPc[k] = "returned" => k \notin remoteSessions

\* one session has ended by the closed input channel and one by its context
C22_Witness ==
    \E k, j \in 1..MaxSessions :
      /\ sshPc[k] = "returned" /\ sshConn[k] \in {"eof", "readError"}
      /\ sshPc[j] = "returned" /\ sshConn[j] = "ctxDone"
      /\ remoteSessions = {}
      /\ \E i \in 1..Len(sshFrames[k]) : sshFrames[k][i].ok

\* at startup only the old file existed, and it held the RSA key alone
LegacyRsaOnly ==
    /\ ~hkStart.current.exists
    /\ hkStart.legacy = KeyFile([rsa |-> "rsaOld", ec |-> ""])

\* the hidden file holds the old RSA key and an EC key
Migrated ==
    /\ hkFiles.current.exists
    /\ hkFiles.current.rsa = "rsaOld"
    /\ hkFiles.current.ec # ""

\* C23: when only the old RSA-only key file exists at startup, the server that
\* comes to serve uses the existing RSA key and a generated EC key, and the old
\* file is gone only if both keys are in the hidden file; the old RSA key is at
\* all times in one of the two files.
C23_LegacyKeyMigratedBeforeRemoval ==
    LegacyRsaOnly =>
      /\ hkPc \in {"ensured", "serving"} => hkKeys = [rsa |-> "rsaOld", ec |-> "ecNew"]
      /\ ~hkFiles.legacy.exists => Migrated
      /\ \/ hkFiles.legacy.exists /\ hkFiles.legacy.rsa = "rsaOld"
         \/ hkFiles.current.exists /\ hkFiles.current.rsa = "rsaOld"

\* the chunks the named-pipe loop has written to stdin, in order
PipeDelivered == SelectSeq(stdinLog, LAMBDA e : e.fn = "handleNamedPipe")

\* io.Copy has returned, in this step, at the end of file
PipeEofStep == pipePc = "copying" /\ pipePc' # "copying" /\ pipeErrs' = pipeErrs

C25_CancelStopsLoopAndRemovesFifo ==
    (ctxCancelled /\ pipePc # "off") ~> (pipePc = "stopped" /\ fifo = "absent")

\* C26: an error of os.Open or of io.Copy is sent to the error channel once and
\* ends the loop: no second error, and no open or copy after the first.
C26_ErrorReportedOnceEndsLoop ==
    /\ pipeErrs <= 1
    /\ pipeErrs = 1 => pipePc = "stopped"

\* the setup of the named pipe has failed in this step
PipeSetupFailedStep ==
    /\ "Failed to setup named pipe" \notin logged
    /\ "Failed to setup named pipe" \in logged'

\* C27: a failure to set up the named pipe leaves the supervisor running with
\* its child.
C27_PipeSetupFailureIsNotFatal ==
    [][ PipeSetupFailedStep => sup' = "running" /\ child' = "running" ]_vars

\* rcon-cli has been run, in this step, with the stop command, and has failed
RconStopFailedStep ==
    /\ Len(rconLog') = Len(rconLog) + 1
    /\ rconLog'[Len(rconLog')].fn = "stopWithRconCli"
    /\ ~rconLog'[Len(rconLog')].ok

\* C28: whenever rcon-cli is available and fails to send the stop command, the
\* stop command is written, in the same call of terminate, to the stdin of the
\* child process, whatever the configuration.
C28_RconFailureFallsBackToChildStdin ==
    [][ RconStopFailedStep
          => /\ Len(stdinLog') = Len(stdinLog) + 1
             /\ stdinLog'[Len(stdinLog')].cmd = StopCommandOf(cfg)
             /\ stdinLog'[Len(stdinLog')].nl
             /\ stdinLog'[Len(stdinLog')].dst = "pipe"
      ]_vars

\* the functions that send the announcement and those that send the stop command
SendersOf(kind) ==
    IF kind = "announce" THEN {"announceStop"} ELSE {"stopWithRconCli", "stopViaConsole"}

\* this step has run rcon-cli for a command of that kind, and how it ended
RconSent(kind) ==
    /\ Len(rconLog') = Len(rconLog) + 1
    /\ rconLog'[Len(rconLog')].fn \in SendersOf(kind)
RconSentOk(kind) == RconSent(kind) /\ rconLog'[Len(rconLog')].ok

\* this step has written a command of that kind to main's stdin writer
StdinSent(kind) ==
    /\ Len(stdinLog') = Len(stdinLog) + 1
    /\ stdinLog'[Len(stdinLog')].fn \in SendersOf(kind)

\* C29: the announcement and the stop command follow one delivery policy: with
\* rcon-cli available the command goes through rcon-cli, and to stdin only if
\* rcon-cli fails; without rcon-cli it is written to stdin.
C29_AnnounceAndStopSamePolicy ==
    [][ \A kind \in {"announce", "stop"} :
          RconSent(kind) \/ StdinSent(kind)
            => IF cfg.rcon
               THEN RconSent(kind) /\ (StdinSent(kind) <=> ~RconSentOk(kind))
               ELSE StdinSent(kind) /\ ~RconSent(kind)
      ]_vars

\* C30: with -detach-stdin nothing the supervisor reads from its own standard
\* input is written to the child's stdin, in any configuration.
C30_DetachedStdinIsNotForwarded ==
    cfg.detachStdin => \A i \in 1..Len(stdinLog) : stdinLog[i].by # LocalStdin


(***************************************************************************)
(* The failures of the console layers next to the kill timer.              *)
(***************************************************************************)
\* remote_shell_service.go:650: ssh.ListenAndServe returns (it only returns an
\* error) and log.Fatal ends the process with os.Exit(1); the child is left alone
SshListenAndServeFails ==
    /\ sup = "running"
    /\ cfg.remoteConsole
    /\ hkPc = "serving"
    /\ hkPc' = "fatal"
    /\ sup' = "exited"
    /\ exitCode' = 1
    /\ UNCHANGED <<cfg, mainPc, sigLeft, termChan, usr1Chan, timer, timers, killTimers, killCalls,
                   stdinLog, rconLog, child, childCode, copyErr, waitResult, cmdExitChan,
                   ctxCancelled, logged>>
    /\ UNCHANGED <<stdinVars, outVars, wsVars, remoteSessions, sshPc, sshConn, sshFrames,
                   hkStart, hkFiles, hkKeys, pipeVars, readerVars, lockVars>>

\* the configurations of the runs that study what can kill the child: a named
\* pipe and the SSH console are on, with and without a stop duration
KillConfigs ==
    {c \in Configs : /\ c.started /\ c.namedPipe /\ c.remoteConsole /\ ~c.rcon /\ ~c.bootstrap
                     /\ ~c.detachStdin /\ ~c.websocketConsole}

\* main is about to call handleNamedPipe; the SSH server is listening
InitKill ==
    /\ InitMain(KillConfigs, 1, 0, 0)
    /\ mainPc = "pipe"
    /\ InitWebsocket({DefaultWsConfig}, 0)
    /\ InitSessions
    /\ InitReader(0)
    /\ InitLocks(0, 0)
    /\ hkStart = NoKeyFiles /\ hkFiles = NoKeyFiles /\ hkKeys = NoKeys /\ hkPc = "serving"
    /\ InitNamedPipe({"absent", "file"}, 1)

\* the SSH server accepts a session, of which this run has one
SshHandleFirstSession == SshHandleSession /\ sshPc'[MaxSessions] = "none"

NextKill ==
    \/ DeliverSignal
    \/ ChildExits
    \/ HandleSigterm
    \/ HandleSigusr1
    \/ AnnounceTimerFire
    \/ KillTimerFire
    \/ WaitReturns
    \/ MainCancel
    \/ MainOsExit
    \/ HandleNamedPipe
    \/ PipeSelect
    \/ PipeOpen
    \/ PipeCopy
    \/ PipeCopyEof
    \/ PipeWriterOpens
    \/ PipeWriterWrites
    \/ PipeWriterCloses
    \/ MainNamedPipeErr
    \/ SshHandleFirstSession
    \/ SshConnBreaks
    \/ SshSessionEnds
    \/ SshListenAndServeFails

SpecKill == InitKill /\ [][NextKill]_vars

\* the child is forcefully killed in this step
ChildKilledNow ==
    \/ killCalls' # killCalls
    \/ child = "running" /\ child' = "exited" /\ childCode' = -1

\* a kill timer, armed by terminate after a stop command, expires in this step
KillTimerExpiresNow ==
    /\ cfg.stopDuration # 0
    /\ StopCount(stdinLog, rconLog) > 0
    /\ \E j \in 1..Len(killTimers) : killTimers[j] = "armed" /\ killTimers'[j] = "fired"

AtMostOneAnnouncementAndStop ==
    cfg.started => /\ AnnounceCount(stdinLog, rconLog) <= 1
                   /\ StopCount(stdinLog, rconLog) <= 1

\* the scheduler lets main, the timers and the goroutine of cmd.Wait run on
SpecFair ==
    /\ Spec
    /\ WF_vars(HandleSigterm) /\ WF_vars(HandleSigusr1)
    /\ WF_vars(AnnounceTimerFire) /\ WF_vars(KillTimerFire)
    /\ WF_vars(WaitReturns) /\ WF_vars(MainExit)

\* C36: once a SIGTERM or SIGUSR1 is pending for a started child, with a stop
\* duration that is not zero, the child eventually exits and the supervisor
\* eventually exits.
SignalEndsChildAndSupervisor ==
    (cfg.started /\ cfg.stopDuration # 0 /\ (termChan \/ usr1Chan))
        ~> (child = "exited" /\ sup # "running")

\* C38: when the child could not be started, the supervisor never crashes: the
\* expiry of the kill timer is a logged failed kill.
UnstartedChildNeverCrashes ==
    ~cfg.started => sup \notin {"panicked", "crashed"}


\* handleIncoming has read a frame in this step
WsFrameReadNow == wsLeft' = wsLeft - 1

\* C39: a frame of a WebSocket client causes a write to the child's stdin only
\* when it is a text frame holding a JSON envelope of type "stdin"; what is
\* written then is the content, with a newline added when it has none.
OnlyStdinEnvelopesAreWritten ==
    [][ WsFrameReadNow =>
          IF /\ wsLastFrame'.kind = "text" /\ wsLastFrame'.valid
             /\ wsLastFrame'.type = "stdin"
          THEN /\ Len(stdinLog') = Len(stdinLog) + 1
               /\ stdinLog'[Len(stdinLog')].cmd = wsLastFrame'.content
               /\ stdinLog'[Len(stdinLog')].nl
          ELSE stdinLog' = stdinLog
      ]_vars


(***************************************************************************)
(* handleSession with its reader goroutine and the unbuffered channel      *)
(* `input` between them.                                                   *)
(***************************************************************************)
MaxSshLines == 2

\* the frame of the steps of handleSession and of its reader goroutine
SessionFrame ==
    /\ UNCHANGED <<stdinVars, outVars, wsVars, sshFrames, hkVars, pipeVars, lockVars>>
    /\ UNCHANGED <<cfg, mainPc, sigLeft, termChan, usr1Chan, timer, timers, killTimers, killCalls,
                   rconLog, child, childCode, copyErr, waitResult, cmdExitChan, sup, exitCode,
                   ctxCancelled>>

\* handleSession up to its loop: the session is registered, the channel made
\* and the reader goroutine started
SshSessionStart(k) ==
    /\ sup = "running"
    /\ cfg.remoteConsole
    /\ sshPc[k] = "none"
    /\ sshPc' = [sshPc EXCEPT ![k] = "loop"]
    /\ sshConn' = [sshConn EXCEPT ![k] = "open"]
    /\ remoteSessions' = remoteSessions \union {k}
    /\ sshReader' = [sshReader EXCEPT ![k] = "reading"]
    /\ UNCHANGED <<stdinLog, logged, sshLeft>>
    /\ SessionFrame

\* terminal.ReadLine returns a line the client has sent: the goroutine goes on
\* to `input <- line`, which blocks until the loop receives
SshReaderGetsLine(k) ==
    /\ sup = "running"
    /\ sshReader[k] = "reading"
    /\ sshPc[k] = "loop" /\ sshConn[k] = "open"
    /\ sshLeft > 0
    /\ sshLeft' = sshLeft - 1
    /\ sshReader' = [sshReader EXCEPT ![k] = "sending"]
    /\ UNCHANGED <<stdinLog, logged, sshPc, sshConn, remoteSessions>>
    /\ SessionFrame

\* terminal.ReadLine returns an error: io.EOF when the client ends its input or
\* the session is closed (as it is once handleSession has returned), another
\* error, which is logged, when the connection is broken; the goroutine
\* closes the channel and returns
SshReaderFails(k) ==
    /\ sup = "running"
    /\ sshReader[k] = "reading"
    /\ logged' = IF sshConn[k] = "gone" /\ sshPc[k] = "loop"
                 THEN logged \union {"Unable to read line from session"}
                 ELSE logged
    /\ sshReader' = [sshReader EXCEPT ![k] = "done"]
    /\ UNCHANGED <<stdinLog, sshLeft, sshPc, sshConn, remoteSessions>>
    /\ SessionFrame

\* the line a session gives to Console.WriteToStdIn
SshLineWrite(k) ==
    [fn |-> "handleSession", by |-> SshSession(k), cmd |-> "line", n |-> 0, nl |-> TRUE,
     dst |-> "pipe"]

\* the select of InputLoop takes a line from the channel, which lets the reader
\* goroutine go on, and writes it to the child's stdin
SshLoopGetsLine(k) ==
    /\ sup = "running"
    /\ sshPc[k] = "loop"
    /\ sshReader[k] = "sending"
    /\ sshReader' = [sshReader EXCEPT ![k] = "reading"]
    /\ stdinLog' = Append(stdinLog, SshLineWrite(k))
    /\ UNCHANGED <<logged, sshLeft, sshPc, sshConn, remoteSessions>>
    /\ SessionFrame

\* the select of InputLoop finds the channel closed: the loop ends, the session
\* is unregistered and handleSession returns
SshLoopInputClosed(k) ==
    /\ sup = "running"
    /\ sshPc[k] = "loop"
    /\ sshReader[k] = "done"
    /\ sshPc' = [sshPc EXCEPT ![k] = "returned"]
    /\ remoteSessions' = remoteSessions \ {k}
    /\ UNCHANGED <<stdinLog, logged, sshLeft, sshConn, sshReader>>
    /\ SessionFrame

\* the select of InputLoop takes session.Context().Done(), which is closed once
\* the connection is gone; when a line is offered at the same time select picks
\* either case. The loop ends, the session is unregistered and handleSession
\* returns; nothing receives from the channel afterwards.
SshLoopContextDone(k) ==
    /\ sup = "running"
    /\ sshPc[k] = "loop"
    /\ sshConn[k] = "gone"
    /\ sshPc' = [sshPc EXCEPT ![k] = "returned"]
    /\ remoteSessions' = remoteSessions \ {k}
    /\ UNCHANGED <<stdinLog, logged, sshLeft, sshConn, sshReader>>
    /\ SessionFrame

NextSshIn ==
    \/ \E k \in 1..MaxSessions : SshSessionStart(k)
    \/ \E k \in 1..MaxSessions : SshReaderGetsLine(k)
    \/ \E k \in 1..MaxSessions : SshReaderFails(k)
    \/ \E k \in 1..MaxSessions : SshLoopGetsLine(k)
    \/ \E k \in 1..MaxSessions : SshLoopInputClosed(k)
    \/ \E k \in 1..MaxSessions : SshLoopContextDone(k)
    \/ SshConnBreaks

InitSshIn ==
    /\ InitSupervisor(SshChildConfigs, 0, 0, 0)
    /\ InitWebsocket({DefaultWsConfig}, 0)
    /\ InitSessions
    /\ InitHostKeys({NoKeyFiles})
    /\ InitReader(MaxSshLines)
    /\ InitLocks(0, 0)
    /\ InitNamedPipe({"absent"}, 0)

\* the scheduler lets every handleSession and every reader goroutine run on
SpecSshIn ==
    /\ InitSshIn /\ [][NextSshIn]_vars
    /\ \A k \in 1..MaxSessions :
         /\ WF_vars(SshReaderFails(k)) /\ WF_vars(SshLoopGetsLine(k))
         /\ WF_vars(SshLoopInputClosed(k)) /\ WF_vars(SshLoopContextDone(k))

\* C37: once the loop of a session's handler has ended, the reader goroutine of
\* that session eventually returns; it is not left blocked in its send to the
\* input channel.
ReaderEndsAfterHandler ==
    \A k \in 1..MaxSessions : (sshPc[k] = "returned") ~> (sshReader[k] = "done")


(***************************************************************************)
(* The locks of the console layers: websocketServer.mu, wsClient.writeMutex,*)
(* logRing.mu, Console.sessionLock and Console.stdInLock, with every       *)
(* goroutine that takes them, one step per lock operation.                 *)
(***************************************************************************)
MaxLockChunks == 2
MaxLockLines == 1

\* the copy goroutine of stream s, inside wsWriter.Write
Writer(s) == <<s, 0>>
\* the goroutine of consoleOutRoutine
ConsoleOut == <<"consoleOut", 0>>

\* the locks goroutine g holds
Held(g) ==
    (IF wsMu = g THEN {"s.mu"} ELSE {})
    \union (IF \E c \in 1..MaxClients : writeMutex[c] = g THEN {"writeMutex"} ELSE {})
    \union (IF ringMu.w = g \/ g \in ringMu.r THEN {"logRing.mu"} ELSE {})
    \union (IF sessionLock = g THEN {"sessionLock"} ELSE {})
    \union (IF stdInLock = g THEN {"stdInLock"} ELSE {})

\* goroutine g takes the lock `name`
Took(g, name) == lockOrder' = lockOrder \union {<<h, name>> : h \in Held(g)}

\* goroutine g holds the mutex of a session registry
HoldsRegistry(g) == wsMu = g \/ sessionLock = g

\* wsWriter.Write calls broadcast: s.mu.Lock() (unlocked by the defer), and the
\* range over s.clients begins
LkBroadcastLock(s) ==
    /\ sup = "running"
    /\ cfg.websocketConsole
    /\ bcPc[s] = "idle"
    /\ lkLeft > 0
    /\ wsMu = NoHolder
    /\ wsMu' = Writer(s)
    /\ Took(Writer(s), "s.mu")
    /\ lkLeft' = lkLeft - 1
    /\ bcMsg' = [bcMsg EXCEPT ![s] = MaxLockChunks - lkLeft + 1]
    /\ bcTodo' = [bcTodo EXCEPT ![s] = clients]
    /\ bcPc' = [bcPc EXCEPT ![s] = "ranging"]
    /\ UNCHANGED <<termVars, stdinVars, outVars, wsVars, remoteSessions, sshPc, sshConn,
                   sshFrames, hkVars, pipeVars, readerVars, writeMutex, ringMu, sshLockVars>>

\* broadcast, in its loop: client.writeMutex.Lock()
LkClientLock(s, c) ==
    /\ sup = "running"
    /\ bcPc[s] = "ranging"
    /\ c \in bcTodo[s]
    /\ writeMutex[c] = NoHolder
    /\ writeMutex' = [writeMutex EXCEPT ![c] = Writer(s)]
    /\ Took(Writer(s), "writeMutex")
    /\ bcPc' = [bcPc EXCEPT ![s] = "writing"]
    /\ UNCHANGED <<termVars, stdinVars, outVars, wsVars, remoteSessions, sshPc, sshConn,
                   sshFrames, hkVars, pipeVars, readerVars, wsMu, ringMu, bcTodo, bcMsg, lkLeft,
                   sshLockVars>>

\* broadcast, in its loop: wsjson.Write to the client, client.writeMutex.Unlock();
\* when the write has failed the client is closed and deleted from the map
LkClientWrite(s, c) ==
    /\ sup = "running"
    /\ bcPc[s] = "writing"
    /\ writeMutex[c] = Writer(s)
    /\ \E ok \in BOOLEAN :
         /\ ok => wsConn[c] = "open"
         /\ wsFrames' = [wsFrames EXCEPT ![c] = Append(@, BroadcastMessage(s, bcMsg[s], ok))]
         /\ wsLogged' = IF ok THEN wsLogged
                        ELSE wsLogged \union {<<"failed to send message to client", c>>}
         /\ wsConn' = IF ~ok /\ wsConn[c] = "open"
                      THEN [wsConn EXCEPT ![c] = "closedInternalError"] ELSE wsConn
         /\ clients' = IF ok THEN clients ELSE clients \ {c}
    /\ writeMutex' = [writeMutex EXCEPT ![c] = NoHolder]
    /\ bcTodo' = [bcTodo EXCEPT ![s] = @ \ {c}]
    /\ bcPc' = [bcPc EXCEPT ![s] = "ranging"]
    /\ UNCHANGED <<termVars, stdinVars, outVars, wsCfg, wsPc, wsReq, wsResp, wsHeartbeat, wsLeft,
                   wsLastFrame, wsCloseLog, logHistory, appended, remoteSessions, sshPc, sshConn,
                   sshFrames, hkVars, pipeVars, readerVars, wsMu, ringMu, bcMsg, lkLeft,
                   sshLockVars, lockOrder>>

\* broadcast returns once the range is over: the deferred s.mu.Unlock()
LkBroadcastUnlock(s) ==
    /\ sup = "running"
    /\ bcPc[s] = "ranging"
    /\ bcTodo[s] = {}
    /\ wsMu' = NoHolder
    /\ bcPc' = [bcPc EXCEPT ![s] = "wantRing"]
    /\ UNCHANGED <<termVars, stdinVars, outVars, wsVars, remoteSessions, sshPc, sshConn,
                   sshFrames, hkVars, pipeVars, readerVars, writeMutex, ringMu, bcTodo, bcMsg,
                   lkLeft, sshLockVars, lockOrder>>

\* wsWriter.Write that appends to the history before broadcast has returned
LkRingLockInBroadcast(s) ==
    /\ sup = "running"
    /\ bcPc[s] = "ranging"
    /\ bcTodo[s] = {}
    /\ ringMu.w = NoHolder /\ ringMu.r = {}
    /\ ringMu' = [ringMu EXCEPT !.w = Writer(s)]
    /\ Took(Writer(s), "logRing.mu")
    /\ bcPc' = [bcPc EXCEPT ![s] = "adding"]
    /\ UNCHANGED <<termVars, stdinVars, outVars, wsVars, remoteSessions, sshPc, sshConn,
                   sshFrames, hkVars, pipeVars, readerVars, wsMu, writeMutex, bcTodo, bcMsg,
                   lkLeft, sshLockVars>>

\* wsWriter.Write, after broadcast: logHistory.add takes lr.mu.Lock()
LkRingLock(s) ==
    /\ sup = "running"
    /\ bcPc[s] = "wantRing"
    /\ ringMu.w = NoHolder /\ ringMu.r = {}
    /\ ringMu' = [ringMu EXCEPT !.w = Writer(s)]
    /\ Took(Writer(s), "logRing.mu")
    /\ bcPc' = [bcPc EXCEPT ![s] = "adding"]
    /\ UNCHANGED <<termVars, stdinVars, outVars, wsVars, remoteSessions, sshPc, sshConn,
                   sshFrames, hkVars, pipeVars, readerVars, wsMu, writeMutex, bcTodo, bcMsg,
                   lkLeft, sshLockVars>>

\* logHistory.add: the chunk is put in the ring; the deferred lr.mu.Unlock();
\* wsWriter.Write returns
LkRingAdd(s) ==
    /\ sup = "running"
    /\ bcPc[s] = "adding"
    /\ logHistory' = RingAdd(logHistory, bcMsg[s])
    /\ appended' = Append(appended, bcMsg[s])
    /\ ringMu' = [ringMu EXCEPT !.w = NoHolder]
    /\ bcPc' = [bcPc EXCEPT ![s] = "idle"]
    /\ UNCHANGED <<termVars, stdinVars, outVars, wsCfg, wsPc, wsReq, wsResp, clients, wsConn,
                   wsFrames, wsHeartbeat, wsLeft, wsLastFrame, wsCloseLog, wsLogged,
                   remoteSessions, sshPc, sshConn, sshFrames, hkVars, pipeVars, readerVars, wsMu,
                   writeMutex, bcTodo, bcMsg, lkLeft, sshLockVars, lockOrder>>

\* ServeHTTP for an admitted client, after websocket.Accept: s.mu.Lock()
LkRegisterLock(c) ==
    /\ sup = "running"
    /\ cfg.websocketConsole
    /\ wsPc[c] = "none"
    /\ wsMu = NoHolder
    /\ wsMu' = WsClient(c)
    /\ Took(WsClient(c), "s.mu")
    /\ wsConn' = [wsConn EXCEPT ![c] = "open"]
    /\ wsPc' = [wsPc EXCEPT ![c] = "registering"]
    /\ UNCHANGED <<termVars, stdinVars, outVars, wsCfg, wsReq, wsResp, clients, wsFrames,
                   wsHeartbeat, wsLeft, wsLastFrame, wsCloseLog, wsLogged, logHistory, appended,
                   remoteSessions, sshPc, sshConn, sshFrames, hkVars, pipeVars, readerVars,
                   writeMutex, ringMu, bcPc, bcTodo, bcMsg, lkLeft, sshLockVars>>

\* ServeHTTP: the client is put in s.clients; s.mu.Unlock()
LkRegister(c) ==
    /\ sup = "running"
    /\ wsPc[c] = "registering"
    /\ clients' = clients \union {c}
    /\ wsMu' = NoHolder
    /\ wsPc' = [wsPc EXCEPT ![c] = "welcome"]
    /\ UNCHANGED <<termVars, stdinVars, outVars, wsCfg, wsReq, wsResp, wsConn, wsFrames,
                   wsHeartbeat, wsLeft, wsLastFrame, wsCloseLog, wsLogged, logHistory, appended,
                   remoteSessions, sshPc, sshConn, sshFrames, hkVars, pipeVars, readerVars,
                   writeMutex, ringMu, bcPc, bcTodo, bcMsg, lkLeft, sshLockVars, lockOrder>>

\* ServeHTTP: logHistory.getAll takes lr.mu.RLock()
LkHistoryLock(c) ==
    /\ sup = "running"
    /\ wsPc[c] = "welcome"
    /\ ringMu.w = NoHolder
    /\ ringMu' = [ringMu EXCEPT !.r = @ \union {WsClient(c)}]
    /\ Took(WsClient(c), "logRing.mu")
    /\ wsPc' = [wsPc EXCEPT ![c] = "history"]
    /\ UNCHANGED <<termVars, stdinVars, outVars, wsCfg, wsReq, wsResp, clients, wsConn, wsFrames,
                   wsHeartbeat, wsLeft, wsLastFrame, wsCloseLog, wsLogged, logHistory, appended,
                   remoteSessions, sshPc, sshConn, sshFrames, hkVars, pipeVars, readerVars, wsMu,
                   writeMutex, bcPc, bcTodo, bcMsg, lkLeft, sshLockVars>>

\* ServeHTTP: getAll reads the ring and returns (the deferred lr.mu.RUnlock()),
\* and the welcome frame is written, with no lock held
LkWelcome(c) ==
    /\ sup = "running"
    /\ wsPc[c] = "history"
    /\ ringMu' = [ringMu EXCEPT !.r = @ \ {WsClient(c)}]
    /\ \E ok \in BOOLEAN :
         /\ ok => wsConn[c] = "open"
         /\ wsFrames' = [wsFrames EXCEPT
                           ![c] = Append(@, welcomeMessage(RingGetAll(logHistory), ok))]
    /\ wsPc' = [wsPc EXCEPT ![c] = "loop"]
    /\ UNCHANGED <<termVars, stdinVars, outVars, wsCfg, wsReq, wsResp, clients, wsConn,
                   wsHeartbeat, wsLeft, wsLastFrame, wsCloseLog, wsLogged, logHistory, appended,
                   remoteSessions, sshPc, sshConn, sshFrames, hkVars, pipeVars, readerVars, wsMu,
                   writeMutex, bcPc, bcTodo, bcMsg, lkLeft, sshLockVars, lockOrder>>

\* ServeHTTP: handleIncoming has returned an error and the handler deletes its
\* session id from s.clients, without s.mu; an entry deleted from a map is not
\* met by a range in progress. When another goroutine is using the map under
\* s.mu the Go runtime may end the program ("concurrent map iteration and map
\* write").
LkReadError(c) ==
    /\ sup = "running"
    /\ wsPc[c] = "loop"
    /\ wsConn[c] # "open"
    /\ \/ /\ clients' = clients \ {c}
          /\ bcTodo' = [s \in Streams |-> bcTodo[s] \ {c}]
          /\ wsPc' = [wsPc EXCEPT ![c] = "returned"]
          /\ wsLogged' = wsLogged \union {<<"closing websocket session", c>>}
          /\ sup' = sup /\ exitCode' = exitCode
       \/ /\ wsMu # NoHolder
          /\ sup' = "crashed"
          /\ exitCode' = 2
          /\ clients' = clients /\ bcTodo' = bcTodo /\ wsPc' = wsPc /\ wsLogged' = wsLogged
    /\ UNCHANGED <<cfg, mainPc, sigLeft, termChan, usr1Chan, timer, timers, killTimers,
                   killCalls, stdinLog, rconLog, child, childCode, copyErr, waitResult,
                   cmdExitChan, ctxCancelled, logged, stdinVars, outVars, wsCfg, wsReq, wsResp,
                   wsConn, wsFrames, wsHeartbeat, wsLeft, wsLastFrame, wsCloseLog, logHistory,
                   appended, remoteSessions, sshPc, sshConn, sshFrames, hkVars, pipeVars,
                   readerVars, wsMu, writeMutex, ringMu, bcPc, bcMsg, lkLeft, sshLockVars,
                   lockOrder>>

\* the peer of client c closes its connection, or the network breaks it
LkConnBreaks(c) ==
    /\ sup = "running"
    /\ wsPc[c] \in {"welcome", "history", "loop"}
    /\ wsConn[c] = "open"
    /\ wsConn' = [wsConn EXCEPT ![c] = "peerGone"]
    /\ UNCHANGED <<termVars, stdinVars, outVars, wsCfg, wsPc, wsReq, wsResp, clients, wsFrames,
                   wsHeartbeat, wsLeft, wsLastFrame, wsCloseLog, wsLogged, logHistory, appended,
                   remoteSessions, sshPc, sshConn, sshFrames, hkVars, pipeVars, readerVars,
                   wsLockVars, sshLockVars, lockOrder>>

\* handleSession: Console.RegisterSession takes sessionLock.Lock()
LkSshRegisterLock(k) ==
    /\ sup = "running"
    /\ cfg.remoteConsole
    /\ sshPc[k] = "none"
    /\ sessionLock = NoHolder
    /\ sessionLock' = SshSession(k)
    /\ Took(SshSession(k), "sessionLock")
    /\ sshConn' = [sshConn EXCEPT ![k] = "open"]
    /\ sshPc' = [sshPc EXCEPT ![k] = "registering"]
    /\ UNCHANGED <<termVars, stdinVars, outVars, wsVars, remoteSessions, sshFrames, hkVars,
                   pipeVars, readerVars, wsLockVars, coPc, coSnap, coLeft>>

\* RegisterSession: the session is put in remoteSessions; sessionLock.Unlock()
LkSshRegister(k) ==
    /\ sup = "running"
    /\ sshPc[k] = "registering"
    /\ remoteSessions' = remoteSessions \union {k}
    /\ sessionLock' = NoHolder
    /\ sshPc' = [sshPc EXCEPT ![k] = "loop"]
    /\ UNCHANGED <<termVars, stdinVars, outVars, wsVars, sshConn, sshFrames, hkVars, pipeVars,
                   readerVars, wsLockVars, coPc, coSnap, coLeft, lockOrder>>

\* handleSession has a line: Console.WriteToStdIn takes stdInLock.Lock()
LkSshStdinLock(k) ==
    /\ sup = "running"
    /\ sshPc[k] = "loop"
    /\ sshLeft > 0
    /\ stdInLock = NoHolder
    /\ stdInLock' = SshSession(k)
    /\ Took(SshSession(k), "stdInLock")
    /\ sshLeft' = sshLeft - 1
    /\ sshPc' = [sshPc EXCEPT ![k] = "stdin"]
    /\ UNCHANGED <<termVars, wpc, inLeft, outVars, wsVars, remoteSessions, sshConn, sshFrames,
                   hkVars, pipeVars, sshReader, wsLockVars, sshLockVars>>

\* WriteToStdIn: the line is written to the child's stdin; stdInLock.Unlock()
LkSshStdinWrite(k) ==
    /\ sup = "running"
    /\ sshPc[k] = "stdin"
    /\ stdinLog' = Append(stdinLog, SshLineWrite(k))
    /\ stdInLock' = NoHolder
    /\ sshPc' = [sshPc EXCEPT ![k] = "loop"]
    /\ UNCHANGED <<cfg, mainPc, sigLeft, termChan, usr1Chan, timer, timers, killTimers,
                   killCalls, rconLog, child, childCode, copyErr, waitResult, cmdExitChan, sup,
                   exitCode, ctxCancelled, logged, wpc, inLeft, outVars, wsVars, remoteSessions,
                   sshConn, sshFrames, hkVars, pipeVars, readerVars, wsLockVars, sshLockVars,
                   lockOrder>>

\* handleSession has left its loop: Console.UnregisterSession takes
\* sessionLock.Lock()
LkSshUnregisterLock(k) ==
    /\ sup = "running"
    /\ sshPc[k] = "loop"
    /\ sessionLock = NoHolder
    /\ sessionLock' = SshSession(k)
    /\ Took(SshSession(k), "sessionLock")
    /\ sshPc' = [sshPc EXCEPT ![k] = "unregistering"]
    /\ UNCHANGED <<termVars, stdinVars, outVars, wsVars, remoteSessions, sshConn, sshFrames,
                   hkVars, pipeVars, readerVars, wsLockVars, coPc, coSnap, coLeft>>

\* UnregisterSession: the session is deleted from remoteSessions;
\* sessionLock.Unlock(); handleSession returns
LkSshUnregister(k) ==
    /\ sup = "running"
    /\ sshPc[k] = "unregistering"
    /\ remoteSessions' = remoteSessions \ {k}
    /\ sessionLock' = NoHolder
    /\ sshPc' = [sshPc EXCEPT ![k] = "returned"]
    /\ UNCHANGED <<termVars, stdinVars, outVars, wsVars, sshConn, sshFrames, hkVars, pipeVars,
                   readerVars, wsLockVars, coPc, coSnap, coLeft, lockOrder>>

\* consoleOutRoutine has a line: Console.CurrentSessions takes sessionLock.Lock()
LkCurrentSessionsLock ==
    /\ sup = "running"
    /\ cfg.remoteConsole
    /\ coPc = "idle"
    /\ coLeft > 0
    /\ sessionLock = NoHolder
    /\ sessionLock' = ConsoleOut
    /\ Took(ConsoleOut, "sessionLock")
    /\ coLeft' = coLeft - 1
    /\ coPc' = "locked"
    /\ UNCHANGED <<termVars, stdinVars, outVars, wsVars, remoteSessions, sshPc, sshConn,
                   sshFrames, hkVars, pipeVars, readerVars, wsLockVars, coSnap>>

\* CurrentSessions: the sessions are copied out of the map; sessionLock.Unlock()
LkCurrentSessions ==
    /\ sup = "running"
    /\ coPc = "locked"
    /\ coSnap' = remoteSessions
    /\ sessionLock' = NoHolder
    /\ coPc' = IF remoteSessions = {} THEN "idle" ELSE "writing"
    /\ UNCHANGED <<termVars, stdinVars, outVars, wsVars, remoteSessions, sshPc, sshConn,
                   sshFrames, hkVars, pipeVars, readerVars, wsLockVars, coLeft, lockOrder>>

\* consoleOutRoutine: session.Write to the next session of the copy
LkSessionWrite(k) ==
    /\ sup = "running"
    /\ coPc = "writing"
    /\ k \in coSnap
    /\ coSnap' = coSnap \ {k}
    /\ coPc' = IF coSnap = {k} THEN "idle" ELSE "writing"
    /\ UNCHANGED <<termVars, stdinVars, outVars, wsVars, remoteSessions, sshPc, sshConn,
                   sshFrames, hkVars, pipeVars, readerVars, wsLockVars, sessionLock, coLeft,
                   lockOrder>>

\* every goroutine that takes a lock: both copy goroutines, the handler of a
\* WebSocket client, an SSH session and consoleOutRoutine
NextLocks ==
    \/ \E s \in Streams : LkBroadcastLock(s)
    \/ \E s \in Streams : \E c \in 1..NumWs : LkClientLock(s, c)
    \/ \E s \in Streams : \E c \in 1..NumWs : LkClientWrite(s, c)
    \/ \E s \in Streams : LkBroadcastUnlock(s)
    \/ \E s \in Streams : LkRingLock(s)
    \/ \E s \in Streams : LkRingAdd(s)
    \/ \E c \in 1..NumWs : LkRegisterLock(c)
    \/ \E c \in 1..NumWs : LkRegister(c)
    \/ \E c \in 1..NumWs : LkHistoryLock(c)
    \/ \E c \in 1..NumWs : LkWelcome(c)
    \/ \E c \in 1..NumWs : LkReadError(c)
    \/ \E c \in 1..NumWs : LkConnBreaks(c)
    \/ \E k \in 1..NumSsh : LkSshRegisterLock(k)
    \/ \E k \in 1..NumSsh : LkSshRegister(k)
    \/ \E k \in 1..NumSsh : LkSshStdinLock(k)
    \/ \E k \in 1..NumSsh : LkSshStdinWrite(k)
    \/ \E k \in 1..NumSsh : LkSshUnregisterLock(k)
    \/ \E k \in 1..NumSsh : LkSshUnregister(k)
    \/ LkCurrentSessionsLock
    \/ LkCurrentSessions
    \/ \E k \in 1..NumSsh : LkSessionWrite(k)

\* the configurations of the runs that study the locks: both consoles are on
LockConfigs ==
    {c \in Configs : /\ c.started /\ c.websocketConsole /\ c.remoteConsole /\ ~c.rcon
                     /\ ~c.namedPipe /\ ~c.bootstrap /\ ~c.detachStdin
                     /\ c.announceDelay = 0 /\ c.stopDuration = 0}

\* the ring holds every chunk of a run
LockWsConfig == [DefaultWsConfig EXCEPT !.logBufferSize = MaxLockChunks]

InitLockRun ==
    /\ InitSupervisor(LockConfigs, 0, 0, 0)
    /\ InitWebsocket({LockWsConfig}, 0)
    /\ InitSessions
    /\ InitHostKeys({NoKeyFiles})
    /\ InitReader(MaxLockLines)
    /\ InitLocks(MaxLockChunks, MaxLockLines)
    /\ InitNamedPipe({"absent"}, 0)

SpecLocks == InitLockRun /\ [][NextLocks]_vars

\* the runs that study the history a new client gets: the goroutines of the
\* WebSocket console alone
NextHistory ==
    \/ \E s \in Streams : LkBroadcastLock(s)
    \/ \E s \in Streams : \E c \in 1..MaxClients : LkClientLock(s, c)
    \/ \E s \in Streams : \E c \in 1..MaxClients : LkClientWrite(s, c)
    \/ \E s \in Streams : LkBroadcastUnlock(s)
    \/ \E s \in Streams : LkRingLock(s)
    \/ \E s \in Streams : LkRingAdd(s)
    \/ \E c \in 1..MaxClients : LkRegisterLock(c)
    \/ \E c \in 1..MaxClients : LkRegister(c)
    \/ \E c \in 1..MaxClients : LkHistoryLock(c)
    \/ \E c \in 1..MaxClients : LkWelcome(c)
    \/ \E c \in 1..MaxClients : LkReadError(c)
    \/ \E c \in 1..MaxClients : LkConnBreaks(c)

SpecHistory == InitLockRun /\ [][NextHistory]_vars

\* the goroutines that take locks
LockGoroutines ==
    {Writer(s) : s \in Streams} \union {WsClient(c) : c \in 1..MaxClients}
    \union {SshSession(k) : k \in 1..NumSsh} \union {ConsoleOut}

\* the goroutines that hold the lock `name` (of client c for a writeMutex)
HoldersOf(name, c) ==
    IF name = "s.mu" THEN {wsMu} \ {NoHolder}
    ELSE IF name = "writeMutex" THEN {writeMutex[c]} \ {NoHolder}
    ELSE IF name = "logRing.mu" THEN ({ringMu.w} \ {NoHolder}) \union ringMu.r
    ELSE IF name = "logRing.mu (read)" THEN {ringMu.w} \ {NoHolder}
    ELSE IF name = "sessionLock" THEN {sessionLock} \ {NoHolder}
    ELSE {stdInLock} \ {NoHolder}

\* the locks goroutine g is about to take, from where it is in its code
Wants(g) ==
    (IF \E s \in Streams : g = Writer(s) /\ bcPc[s] = "idle" /\ lkLeft > 0
     THEN {<<"s.mu", 0>>} ELSE {})
    \union {<<"writeMutex", c>> : c \in {d \in 1..MaxClients :
                \E s \in Streams : g = Writer(s) /\ bcPc[s] = "ranging" /\ d \in bcTodo[s]}}
    \union (IF \E s \in Streams : g = Writer(s) /\ bcPc[s] = "wantRing"
            THEN {<<"logRing.mu", 0>>} ELSE {})
    \union (IF \E c \in 1..MaxClients : g = WsClient(c) /\ wsPc[c] = "none"
            THEN {<<"s.mu", 0>>} ELSE {})
    \union (IF \E c \in 1..MaxClients : g = WsClient(c) /\ wsPc[c] = "welcome"
            THEN {<<"logRing.mu (read)", 0>>} ELSE {})
    \union (IF \E k \in 1..NumSsh : g = SshSession(k) /\ sshPc[k] \in {"none", "loop"}
            THEN {<<"sessionLock", 0>>} ELSE {})
    \union (IF \E k \in 1..NumSsh : g = SshSession(k) /\ sshPc[k] = "loop" /\ sshLeft > 0
            THEN {<<"stdInLock", 0>>} ELSE {})
    \union (IF g = ConsoleOut /\ coPc = "idle" /\ coLeft > 0
            THEN {<<"sessionLock", 0>>} ELSE {})

\* g waits for h: g is about to take a lock that h holds
WaitsFor ==
    {p \in LockGoroutines \X LockGoroutines :
       \E w \in Wants(p[1]) : p[2] \in HoldersOf(w[1], w[2])}

\* the waits of the goroutines that hold a lock themselves: a goroutine that
\* holds none is waited for by nobody and is on no cycle
HeldWaits == {p \in WaitsFor : Held(p[1]) # {}}

\* the transitive closure of a relation
RECURSIVE Closure(_)
Closure(R) ==
    LET Step == R \union {<<p[1], q[2]>> : <<p, q>> \in {pq \in R \X R : pq[1][2] = pq[2][1]}}
    IN  IF Step = R THEN R ELSE Closure(Step)

Acyclic(R) == \A p \in Closure(R) : p[1] # p[2]

\* C40: the locks of the console layers are never taken in a cyclic order, the
\* ring lock and a registry lock are never held together, and no goroutines
\* wait for each other's locks in a cycle.
LocksNeverDeadlock ==
    /\ Acyclic(lockOrder)
    /\ \A g \in LockGoroutines : ~("logRing.mu" \in Held(g) /\ HoldsRegistry(g))
    /\ Acyclic(HeldWaits)

\* every lock is held at once: a copy goroutine is writing to a client inside
\* broadcast, the other is in logHistory.add, a handler waits for the ring, the
\* SSH session writes to stdin and consoleOutRoutine copies the sessions
LocksContended ==
    /\ \E s, t \in Streams : \E c, d \in 1..MaxClients :
         /\ bcPc[s] = "writing" /\ wsMu = Writer(s) /\ writeMutex[c] = Writer(s)
         /\ bcPc[t] = "adding" /\ ringMu.w = Writer(t)
         /\ wsPc[d] = "welcome"
    /\ sessionLock = ConsoleOut
    /\ stdInLock = SshSession(1)
    /\ lockOrder = {<<"s.mu", "writeMutex">>}
    /\ WaitsFor # {}

\* the goroutine whose step this is
StepBy(g) ==
    \/ \E s \in Streams : g = Writer(s) /\ bcPc'[s] # bcPc[s]
    \/ \E c \in 1..MaxClients : g = WsClient(c) /\ wsPc'[c] # wsPc[c]
    \/ \E k \in 1..NumSsh : g = SshSession(k) /\ sshPc'[k] # sshPc[k]
    \/ g = ConsoleOut /\ <<coPc, coSnap>>' # <<coPc, coSnap>>

\* a frame is written to WebSocket client c in this step
WsNetWriteNow(c) == Len(wsFrames'[c]) > Len(wsFrames[c])
\* consoleOutRoutine writes to an SSH session in this step
SshNetWriteNow == coPc = "writing" /\ coSnap' # coSnap

\* C32: no goroutine writes to a remote session while it holds the mutex of a
\* session registry.
NoWriteUnderRegistryLock ==
    [][ /\ \A c \in 1..MaxClients :
             WsNetWriteNow(c) => \A g \in LockGoroutines : StepBy(g) => ~HoldsRegistry(g)
        /\ SshNetWriteNow => ~HoldsRegistry(ConsoleOut)
      ]_vars

\* C33: every step that changes a registry map, or reads it for a broadcast, is
\* taken by a goroutine that holds the mutex of that registry.
RegistryOnlyUnderItsMutex ==
    [][ /\ clients' # clients => \A g \in LockGoroutines : StepBy(g) => wsMu = g
        /\ \A s \in Streams : bcPc[s] = "idle" /\ bcPc'[s] = "ranging" => wsMu' = Writer(s)
        /\ remoteSessions' # remoteSessions
             => \A g \in LockGoroutines : StepBy(g) => sessionLock = g
        /\ coPc = "locked" /\ coPc' # "locked" => sessionLock = ConsoleOut
      ]_vars

\* how many times chunk x has reached client c: in the recent lines of its
\* welcome frame, or as a frame of its own
Received(c, x) ==
    Cardinality({i \in 1..Len(wsFrames[c]) :
                   IF wsFrames[c][i].type = "welcome"
                   THEN \E j \in 1..Len(wsFrames[c][i].recentLines) :
                          wsFrames[c][i].recentLines[j] = x
                   ELSE wsFrames[c][i].content = x})

\* client c is connected and has got its welcome frame and every frame written to it
FullyServed(c) ==
    /\ wsPc[c] = "loop" /\ wsConn[c] = "open" /\ c \in clients
    /\ \A i \in 1..Len(wsFrames[c]) : wsFrames[c][i].ok

\* every chunk of the run has been broadcast and appended to the history
AllWritten == lkLeft = 0 /\ \A s \in Streams : bcPc[s] = "idle"

\* C35: a client that connects while output is produced gets every chunk that
\* fits in the ring exactly once, in its welcome frame or as a later frame:
\* no chunk twice, and, once every chunk is written, no chunk missing.
EveryChunkExactlyOnce ==
    \A c \in 1..MaxClients : \A x \in 1..MaxLockChunks :
      FullyServed(c) => /\ Received(c, x) <= 1
                        /\ (AllWritten => Received(c, x) = 1)

====
